---------------------------- MODULE Spec2Model ----------------------------
(***************************************************************************)
(* A model of the daily-routine chat bot: the slot registry (slots.py),    *)
(* the SQLite storage of slot responses (storage.py), the statistics       *)
(* calculator (stats.py), the button-callback and /start handlers and      *)
(* send_slot_message (bot.py) and the scheduler's jobs (scheduler.py).     *)
(*                                                                         *)
(* Text is modelled as a tuple of characters, one string per character;    *)
(* a character outside ASCII is written as its code point ("U+2705").      *)
(* Python's None is the empty tuple where the value is otherwise a tuple   *)
(* and the string "None" where it is otherwise a string.                   *)
(***************************************************************************)
EXTENDS Naturals, Integers, Sequences, FiniteSets, TLC

VARIABLES
    rows,       \* the slot_responses table, in insertion (id) order
    today,      \* date.today(), as a day number
    clock,      \* datetime.now(), as a tick count
    user_id,    \* SlotScheduler.user_id
    whoop_client, \* whether main() built a WhoopClient (config.whoop.is_configured)
    whoop_data, \* the whoop_data table: per date no row, a row without metrics, or one with
    notifications, \* the notifications table, in insertion order
    last,       \* what the last handler or job run did (sends, requests, exception)
    pure,       \* one application of a pure function: its input and its result
    whoop_tokens, \* the whoop_tokens row of the user, or None
    whoop_api,  \* how the WHOOP servers answer: the token grant and the bearer tokens they accept
    now,        \* datetime.now(), in units of TimeUnit
    user_settings, \* the user_settings row: monitoring_enabled
    stress,     \* the _check_stress_job run in flight, and the alerts delivered so far
    runtime,    \* the process: the scheduler's job instances, the handlers in flight, the shutdown
    refreshes   \* the calls of refresh_access_token in flight, and what the token URL has issued

\* the state of the WHOOP client and of the stress monitoring
whoop_vars == <<whoop_tokens, whoop_api, now, user_settings, stress, runtime, refreshes>>

vars == <<rows, today, clock, user_id, whoop_client, whoop_data, notifications, last, pure, whoop_vars>>

None == <<>>

\* no whoop_tokens row for the user (get_whoop_tokens returns None)
NoTokens == [access_token |-> "None", refresh_token |-> "None", expires_at |-> 0]

\* the WHOOP servers out of reach: no answer from the token URL (status 0),
\* no bearer token accepted
ApiDown ==
    [grant |-> [status |-> 0, access_token |-> "None", refresh_token |-> "None", expires_in |-> 1],
     accepts |-> {}]

\* Python values where a float or None is expected: a float in tenths of a
\* unit (12.5 is 125), the float nan, an infinity (v its sign), and None
Num(v) == [is |-> "number", v |-> v]

NaN == [is |-> "nan", v |-> 0]

Inf(sign) == [is |-> "inf", v |-> sign]

Null == [is |-> "null", v |-> 0]

\* WhoopMonitoringConfig.stress_threshold, 12.0
stress_threshold == 120

\* no _check_stress_job run in flight and no alert delivered yet
\*   pc          the await the run is suspended on, or "idle"
\*   threshold   the stress_threshold of the user_settings the run has read
\*   strain      its local strain_score
\*   recovery    its local recovery_score is known
\*   sent        the alerts delivered so far
\*   alerted_at  the time of the latest of them
StressIdle ==
    [pc |-> "idle", threshold |-> Num(stress_threshold), strain |-> Null,
     recovery |-> FALSE, sent |-> 0, alerted_at |-> 0]

\* the process before anything is scheduled or handled: main() waits for the
\* shutdown signal, the scheduler is started, no job instance and no handler
\* is in flight, every HTTP client is open
RuntimeIdle ==
    [main |-> "waiting", scheduler |-> "running", instances |-> {}, skipped |-> None,
     handlers |-> 0, steps |-> <<>>, closed |-> {}, bot |-> TRUE]

\* the tasks that refresh the token: the nightly job, the stress monitor and
\* a wearable command handler
RefreshTasks == {"whoop_update", "whoop_stress_monitoring", "whoop_now"}

\* a task outside refresh_access_token
NoResponse == [status |-> 0, access_token |-> "None", refresh_token |-> "None", expires_in |-> 1]

TaskIdle == [pc |-> "idle", refresh_token |-> "None", response |-> NoResponse]

\* no refresh in flight, nothing issued by the token URL yet
RefreshIdle ==
    [tasks |-> [task \in RefreshTasks |-> TaskIdle], issued |-> 0,
     access_token |-> "None", refresh_token |-> "None"]

\* the WHOOP client and the monitoring out of play: not connected, time
\* standing still, monitoring enabled (the default of user_settings)
WhoopIdle ==
    /\ whoop_tokens = NoTokens
    /\ whoop_api = ApiDown
    /\ now = 0
    /\ user_settings = [monitoring_enabled |-> TRUE, stress_threshold |-> Num(stress_threshold)]
    /\ stress = StressIdle
    /\ runtime = RuntimeIdle
    /\ refreshes = RefreshIdle

-----------------------------------------------------------------------------
(* Text primitives: str.lower, str.startswith, str.split, the `in` test.   *)

UpperAscii == <<"A", "B", "C", "D", "E", "F", "G", "H", "I", "J", "K", "L", "M", "N", "O", "P", "Q", "R", "S", "T", "U", "V", "W", "X", "Y", "Z">>
LowerAscii == <<"a", "b", "c", "d", "e", "f", "g", "h", "i", "j", "k", "l", "m", "n", "o", "p", "q", "r", "s", "t", "u", "v", "w", "x", "y", "z">>
\* U+0410..U+042F and U+0430..U+044F: the Cyrillic capital and small letters
UpperCyrillic == <<"U+0410", "U+0411", "U+0412", "U+0413", "U+0414", "U+0415", "U+0416", "U+0417", "U+0418", "U+0419", "U+041A", "U+041B", "U+041C", "U+041D", "U+041E", "U+041F", "U+0420", "U+0421", "U+0422", "U+0423", "U+0424", "U+0425", "U+0426", "U+0427", "U+0428", "U+0429", "U+042A", "U+042B", "U+042C", "U+042D", "U+042E", "U+042F">>
LowerCyrillic == <<"U+0430", "U+0431", "U+0432", "U+0433", "U+0434", "U+0435", "U+0436", "U+0437", "U+0438", "U+0439", "U+043A", "U+043B", "U+043C", "U+043D", "U+043E", "U+043F", "U+0440", "U+0441", "U+0442", "U+0443", "U+0444", "U+0445", "U+0446", "U+0447", "U+0448", "U+0449", "U+044A", "U+044B", "U+044C", "U+044D", "U+044E", "U+044F">>

LowerChar(c) ==
    IF \E i \in DOMAIN UpperAscii : UpperAscii[i] = c
    THEN LowerAscii[CHOOSE i \in DOMAIN UpperAscii : UpperAscii[i] = c]
    ELSE IF \E i \in DOMAIN UpperCyrillic : UpperCyrillic[i] = c
    THEN LowerCyrillic[CHOOSE i \in DOMAIN UpperCyrillic : UpperCyrillic[i] = c]
    ELSE c

\* str.lower()
Lower(s) == [i \in DOMAIN s |-> LowerChar(s[i])]

\* s.startswith(p)
StartsWith(s, p) == Len(s) >= Len(p) /\ SubSeq(s, 1, Len(p)) = p

\* `m in s` for strings: m occurs in s as a substring
Contains(s, m) ==
    \E i \in 1..(Len(s) + 1) : i + Len(m) - 1 <= Len(s) /\ SubSeq(s, i, i + Len(m) - 1) = m

\* s.split(sep) for a one-character separator: the segments between the
\* separators, empty segments kept
RECURSIVE SplitFrom(_, _, _, _)
SplitFrom(s, sep, i, cur) ==
    IF i > Len(s) THEN <<cur>>
    ELSE IF s[i] = sep THEN <<cur>> \o SplitFrom(s, sep, i + 1, <<>>)
    ELSE SplitFrom(s, sep, i + 1, Append(cur, s[i]))

Split(s, sep) == SplitFrom(s, sep, 1, <<>>)

-----------------------------------------------------------------------------
(* slots.py: the registry of the six slots.                                *)

S1 == <<"S", "1">>
S2 == <<"S", "2">>
S3 == <<"S", "3">>
S4 == <<"S", "4">>
S5 == <<"S", "5">>
S6 == <<"S", "6">>

tok_success == <<"s", "u", "c", "c", "e", "s", "s">>
tok_skip == <<"s", "k", "i", "p">>
tok_ideal == <<"i", "d", "e", "a", "l">>
tok_normal == <<"n", "o", "r", "m", "a", "l">>
tok_noise == <<"n", "o", "i", "s", "e">>

\* SLOT_BUTTONS: per slot the (label, token) pairs in order.  A label is cut
\* after its first word (no operation reads past it).
SLOT_BUTTONS ==
    (S1 :> << << <<"U+2705", " ", "U+0423", "U+0442", "U+0440", "U+043E">>, tok_success >>,
              << <<"U+23ED", " ", "U+0421", "U+0435", "U+0433", "U+043E", "U+0434", "U+043D", "U+044F">>, tok_skip >> >>)
 @@ (S2 :> << << <<"U+1F9D8", " ", "U+041F", "U+0430", "U+0443", "U+0437", "U+0430">>, tok_success >>,
              << <<"U+1F4A8", " ", "U+041F", "U+0440", "U+043E", "U+0441", "U+043A", "U+043E", "U+0447", "U+0438", "U+043B">>, tok_skip >> >>)
 @@ (S3 :> << << <<"U+1F680", " ", "U+0411", "U+044B", "U+043B">>, tok_success >>,
              << <<"U+1F9E9", " ", "U+0420", "U+0430", "U+0437", "U+043C", "U+0430", "U+0437", "U+0430", "U+043B", "U+0441", "U+044F">>, tok_skip >> >>)
 @@ (S4 :> << << <<"U+1F4B0", " ", "U+0421", "U+0434", "U+0435", "U+043B", "U+0430", "U+043B">>, tok_success >>,
              << <<"U+23ED", " ", "U+041F", "U+043E", "U+043A", "U+0430">>, tok_skip >> >>)
 @@ (S5 :> << << <<"U+1F305", " ", "U+0411", "U+044B", "U+043B">>, tok_success >>,
              << <<"U+1F3E0", " ", "U+041F", "U+0440", "U+043E", "U+043F", "U+0443", "U+0441", "U+0442", "U+0438", "U+043B">>, tok_skip >> >>)
 @@ (S6 :> << << <<"U+2728", " ", "U+0414", "U+0435", "U+043D", "U+044C">>, tok_ideal >>,
              << <<"U+1F642", " ", "U+041D", "U+043E", "U+0440", "U+043C">>, tok_normal >>,
              << <<"U+1F300", " ", "U+0414", "U+0435", "U+043D", "U+044C">>, tok_noise >> >>)

\* get_all_slot_ids(): the keys of SLOT_BUTTONS in insertion order
get_all_slot_ids == <<S1, S2, S3, S4, S5, S6>>

\* the list s1_s5_slots of is_ideal_day, _is_ideal_day and _get_weakest_slot
s1_s5_slots == <<S1, S2, S3, S4, S5>>

SlotIds == {get_all_slot_ids[i] : i \in DOMAIN get_all_slot_ids}

\* the callback_data f"slot_{slot_id}_{callback_data}" of one button
FormatCallback(slot_id, token) == <<"s", "l", "o", "t", "_">> \o slot_id \o <<"_">> \o token

\* get_slot_buttons(slot_id): one button per row, (text, callback_data);
\* KeyError (None here) for an unknown slot
get_slot_buttons(slot_id) ==
    IF slot_id \notin DOMAIN SLOT_BUTTONS THEN None
    ELSE [i \in DOMAIN SLOT_BUTTONS[slot_id] |->
            [text |-> SLOT_BUTTONS[slot_id][i][1],
             callback_data |-> FormatCallback(slot_id, SLOT_BUTTONS[slot_id][i][2])]]

parse_callback_data_accepts_more(callback_data) ==
    IF ~StartsWith(callback_data, <<"s", "l", "o", "t", "_">>) THEN None
    ELSE LET parts == Split(callback_data, "_") IN
         IF Len(parts) < 3 THEN None
         ELSE IF parts[2] \notin DOMAIN SLOT_BUTTONS THEN None
         ELSE <<parts[2], parts[3]>>

\* parse_callback_data(callback_data): (slot_id, button_choice) or None
parse_callback_data(callback_data) ==
    IF ~StartsWith(callback_data, <<"s", "l", "o", "t", "_">>) THEN None
    ELSE LET parts == Split(callback_data, "_") IN
         IF Len(parts) # 3 THEN None
         ELSE LET slot_id == parts[2]
                  button_choice == parts[3]
              IN  IF slot_id \notin DOMAIN SLOT_BUTTONS THEN None
                  ELSE <<slot_id, button_choice>>

is_successful_response(slot_id, button_choice) ==
    IF slot_id = S6 THEN button_choice = tok_ideal
    ELSE button_choice = tok_success

\* the for loop of is_ideal_day over s1_s5_slots, from position i on
RECURSIVE CountSuccessful(_, _)
CountSuccessful(responses, i) ==
    IF i > Len(s1_s5_slots) THEN 0
    ELSE (IF s1_s5_slots[i] \in DOMAIN responses
             /\ is_successful_response(s1_s5_slots[i], responses[s1_s5_slots[i]])
          THEN 1 ELSE 0) + CountSuccessful(responses, i + 1)

is_ideal_day_without_s6_gate(responses, min_successful_slots) ==
    IF CountSuccessful(responses, 1) < min_successful_slots THEN FALSE
    ELSE IF S6 \notin DOMAIN responses THEN TRUE
    ELSE is_successful_response(S6, responses[S6])

\* is_ideal_day(responses, min_successful_slots = 4)
is_ideal_day(responses, min_successful_slots) ==
    LET successful_count == CountSuccessful(responses, 1) IN
    IF successful_count < min_successful_slots THEN FALSE
    ELSE IF S6 \notin DOMAIN responses THEN FALSE
    ELSE is_successful_response(S6, responses[S6])

-----------------------------------------------------------------------------
(* storage.py: the slot_responses table and its reads.                     *)
(*                                                                         *)
(* A date is a day number and a timestamp a tick count: date.isoformat()   *)
(* and datetime.isoformat() are fixed-width, most significant field first, *)
(* so the text comparisons of the SQL (date >= ?, ORDER BY timestamp) order *)
(* them as the numbers do.                                                 *)

\* the row INSERTed by save_response(slot_id, button_choice)
NewRow(slot_id, button_choice) ==
    [date |-> today, slot_id |-> slot_id, button_choice |-> button_choice, timestamp |-> clock]

save_response_replacing(table, slot_id, button_choice) ==
    SelectSeq(table, LAMBDA r : ~(r.date = today /\ r.slot_id = slot_id))
        \o <<NewRow(slot_id, button_choice)>>

\* save_response: the table after the INSERT
save_response(table, slot_id, button_choice) ==
    Append(table, NewRow(slot_id, button_choice))

\* the marker list of get_slot_statistics and _is_ideal_day
SuccessMarkers ==
    << <<"U+2705">>, <<"U+1F680">>, <<"U+1F4B0">>, <<"U+1F9D8">>, <<"U+1F305">>,
       <<"U+0431", "U+044B", "U+043B">>,
       <<"U+0441", "U+0434", "U+0435", "U+043B", "U+0430", "U+043B">>,
       <<"U+0431", "U+044B", "U+043B", "U+0430">> >>

\* any(marker in choice.lower() for marker in [...])
AnyMarkerIn(choice) ==
    \E k \in DOMAIN SuccessMarkers : Contains(Lower(choice), SuccessMarkers[k])

\* "ideal" in s6_choice or the Russian word for it, s6_choice lower-cased
IdealWordIn(choice) ==
    \/ Contains(Lower(choice), <<"U+044D", "U+0442", "U+0430", "U+043B", "U+043E", "U+043D">>)
    \/ Contains(Lower(choice), <<"i", "d", "e", "a", "l">>)

\* The two tests above, computed once for the texts the buttons can store
\* (their tokens) and for the button labels.
ButtonTexts ==
    UNION {{SLOT_BUTTONS[s][i][k] : i \in DOMAIN SLOT_BUTTONS[s], k \in 1..2} : s \in SlotIds}

MarkerTable == [c \in ButtonTexts |-> AnyMarkerIn(c)]

IdealWordTable == [c \in ButtonTexts |-> IdealWordIn(c)]

HasSuccessMarker(choice) ==
    IF choice \in DOMAIN MarkerTable THEN MarkerTable[choice] ELSE AnyMarkerIn(choice)

HasIdealWord(choice) ==
    IF choice \in DOMAIN IdealWordTable THEN IdealWordTable[choice] ELSE IdealWordIn(choice)

RECURSIVE SumOver(_, _)
SumOver(S, f) ==
    IF S = {} THEN 0
    ELSE LET x == CHOOSE y \in S : TRUE IN f[x] + SumOver(S \ {x}, f)

\* round(successful / total * 100, 1) in tenths of a percent (667 is 66.7):
\* to the nearest tenth, a tie to the even one
Percentage(successful, total) ==
    IF total > 0
    THEN LET q == (successful * 1000) \div total
             r == (successful * 1000) % total
         IN  IF 2 * r > total THEN q + 1
             ELSE IF 2 * r < total THEN q
             ELSE IF q % 2 = 0 THEN q ELSE q + 1
    ELSE 0

\* get_slot_statistics(slot_id, days) over the table
get_slot_statistics(table, slot_id, days) ==
    LET end_date == today
        start_date == end_date - days + 1
        hits == {i \in DOMAIN table : /\ table[i].slot_id = slot_id
                                      /\ table[i].date >= start_date
                                      /\ table[i].date <= end_date}
        \* GROUP BY button_choice: one row (button_choice, count) per choice
        choices == {table[i].button_choice : i \in hits}
        count == [c \in choices |-> Cardinality({i \in hits : table[i].button_choice = c})]
        total == SumOver(choices, count)
        good == {c \in choices : IF slot_id = S6 THEN c = tok_ideal ELSE HasSuccessMarker(c)}
        successful == SumOver(good, count)
    IN  [total |-> total, successful |-> successful, percentage |-> Percentage(successful, total)]

\* the rows of one day, ORDER BY timestamp DESC
RECURSIVE OrderByTimestampDesc(_, _)
OrderByTimestampDesc(table, idx) ==
    IF idx = {} THEN <<>>
    ELSE LET top == CHOOSE i \in idx : \A j \in idx : table[j].timestamp <= table[i].timestamp
         IN  <<table[top]>> \o OrderByTimestampDesc(table, idx \ {top})

\* the loop of get_day_responses: a slot keeps the first choice met
RECURSIVE FirstPerSlot(_, _, _)
FirstPerSlot(sorted, i, responses) ==
    IF i > Len(sorted) THEN responses
    ELSE IF sorted[i].slot_id \in DOMAIN responses
    THEN FirstPerSlot(sorted, i + 1, responses)
    ELSE FirstPerSlot(sorted, i + 1, (sorted[i].slot_id :> sorted[i].button_choice) @@ responses)

get_day_responses_oldest_first(table, target_date) ==
    LET sorted == OrderByTimestampDesc(table, {i \in DOMAIN table : table[i].date = target_date})
    IN  FirstPerSlot([i \in DOMAIN sorted |-> sorted[Len(sorted) + 1 - i]], 1, <<>>)

\* get_day_responses(target_date): {slot_id: button_choice}
get_day_responses(table, target_date) ==
    LET sorted == OrderByTimestampDesc(table, {i \in DOMAIN table : table[i].date = target_date})
    IN  FirstPerSlot(sorted, 1, <<>>)

\* the for loop of Storage._is_ideal_day over S1..S5, from position i on
RECURSIVE CountMarked(_, _)
CountMarked(responses, i) ==
    IF i > Len(s1_s5_slots) THEN 0
    ELSE (IF s1_s5_slots[i] \in DOMAIN responses
             /\ HasSuccessMarker(responses[s1_s5_slots[i]])
          THEN 1 ELSE 0) + CountMarked(responses, i + 1)

\* Storage._is_ideal_day(responses)
storage_is_ideal_day(responses) ==
    LET successful_slots == CountMarked(responses, 1) IN
    IF successful_slots < 4 THEN FALSE
    ELSE IF S6 \notin DOMAIN responses THEN FALSE
    ELSE HasIdealWord(responses[S6])

\* the while loop of get_ideal_days_count, from current_date on
RECURSIVE CountIdealFrom(_, _, _)
CountIdealFrom(table, current_date, end_date) ==
    IF current_date > end_date THEN 0
    ELSE (IF storage_is_ideal_day(get_day_responses(table, current_date)) THEN 1 ELSE 0)
         + CountIdealFrom(table, current_date + 1, end_date)

\* get_ideal_days_count(days)
get_ideal_days_count(table, days) ==
    LET end_date == today
        start_date == end_date - days + 1
    IN  CountIdealFrom(table, start_date, end_date)

-----------------------------------------------------------------------------
(* stats.py: StatsCalculator.                                              *)

\* the for loop of _get_weakest_slot over S1..S5: (weakest_slot, min_percentage)
RECURSIVE WeakestFrom(_, _, _, _)
WeakestFrom(slots_stats, i, weakest_slot, min_percentage) ==
    IF i > Len(s1_s5_slots) THEN weakest_slot
    ELSE LET slot_id == s1_s5_slots[i] IN
         IF /\ slot_id \in DOMAIN slots_stats
            /\ slots_stats[slot_id].total > 0
            /\ slots_stats[slot_id].percentage < min_percentage
         THEN WeakestFrom(slots_stats, i + 1, slot_id, slots_stats[slot_id].percentage)
         ELSE WeakestFrom(slots_stats, i + 1, weakest_slot, min_percentage)

\* _get_weakest_slot(slots_stats): min_percentage starts at 100.0
get_weakest_slot(slots_stats) == WeakestFrom(slots_stats, 1, None, 1000)

\* calculate_statistics(days)
calculate_statistics(table, days) ==
    LET slots_stats == [s \in SlotIds |-> get_slot_statistics(table, s, days)] IN
    [period_days |-> days,
     slots |-> slots_stats,
     ideal_days |-> get_ideal_days_count(table, days),
     weakest_slot |-> get_weakest_slot(slots_stats)]

-----------------------------------------------------------------------------
(* What one run of a handler or job did, kept in `last`.                   *)
(*   replies : the answers to the user's own message or button press       *)
(*   sends   : the bot.send_message calls, each with its outcome           *)
(*   llm, whoop : the calls made to the LLM client and the wearable client *)
(*   raised  : an exception left the handler                               *)
(*   env, message, attempts : for _send_slot_job, how the calls turned out, *)
(*             what its last send_slot_message did, and the attempts made  *)

\* how the calls of one send_slot_message turn out
\*   context_ok  get_context_for_slot returns
\*   api         whoop_client.get_all_data: "metrics", "empty" or "raise"
\*   llm_result  the LLM request: "text", "empty" or "raise"
\*   block_ok, main_ok, fallback_ok  the three bot.send_message calls
NoEnv ==
    [context_ok |-> TRUE, api |-> "metrics", llm_result |-> "text",
     block_ok |-> TRUE, main_ok |-> TRUE, fallback_ok |-> TRUE]

\* what a call did: its sends, its LLM and wearable requests, and whether an
\* exception left it
Effect(sends, llm, whoop, raised) ==
    [sends |-> sends, llm |-> llm, whoop |-> whoop, raised |-> raised]

Idle ==
    [op |-> "idle", arg |-> None, user |-> "None", env |-> NoEnv, replies |-> <<>>,
     sends |-> <<>>, llm |-> 0, whoop |-> 0, attempts |-> 0, waits |-> <<>>,
     message |-> Effect(<<>>, 0, 0, FALSE), raised |-> FALSE]

PureIdle == [fn |-> "idle", done |-> FALSE, arg |-> None, min |-> 0, out |-> None]

Reply(text, ok) == [text |-> text, ok |-> ok]

-----------------------------------------------------------------------------
(* bot.py: the button-callback handler and /stats.                         *)

MaxRows == 2
MaxDay == 1
Days == 0..MaxDay

\* The payloads a button press can carry: those of the buttons the bot sends
\* for the slots pressed here (get_slot_buttons), and malformed ones for the
\* handler's error path.
PressedSlots == {S1, S6}

ButtonPayloads(slots) ==
    UNION {{get_slot_buttons(s)[i].callback_data : i \in DOMAIN get_slot_buttons(s)} : s \in slots}

LayoutPayloads == ButtonPayloads(PressedSlots)

MalformedPayloads ==
    { <<"s", "l", "o", "t", "_", "S", "1">>,
      <<"s", "l", "o", "t", "_", "S", "7", "_", "s", "k", "i", "p">>,
      <<"s", "l", "o", "t", "_", "S", "1", "_", "s", "k", "i", "p", "_", "x">>,
      <<"s", "l", "o", "t", "s", "_", "S", "1", "_", "s", "k", "i", "p">> }

Payloads == LayoutPayloads \cup MalformedPayloads

\* parse_callback_data, computed once per payload
Parsed == [d \in Payloads |-> parse_callback_data(d)]

\* the payloads the dispatcher routes to the handler: F.data.startswith("slot_")
Routed == {d \in Payloads : StartsWith(d, <<"s", "l", "o", "t", "_">>)}

\* _handle_button_callback(callback_query), behind its filter
\* F.data.startswith("slot_").  write_ok: the INSERT succeeds; answer_ok,
\* error_answer_ok: callback_query.answer succeeds (first call, call in the
\* except branch).
HandleButtonCallback(data, write_ok, answer_ok, error_answer_ok) ==
    /\ data \in Routed
    /\ LET parsed == Parsed[data]
           stored == parsed # None /\ write_ok
           first == IF parsed = None THEN <<Reply("invalid", answer_ok)>>
                    ELSE IF write_ok THEN <<Reply("thanks", answer_ok)>>
                    ELSE <<>>
           failed == (parsed # None /\ ~write_ok) \/ ~answer_ok
           replies == IF failed THEN first \o <<Reply("error", error_answer_ok)>> ELSE first
       IN  /\ stored => clock < MaxRows
           /\ rows' = IF stored THEN save_response(rows, parsed[1], parsed[2]) ELSE rows
           /\ clock' = IF stored THEN clock + 1 ELSE clock
           /\ last' = [Idle EXCEPT !.op = "callback", !.arg = data, !.replies = replies,
                                   !.raised = failed /\ ~error_answer_ok]
    /\ UNCHANGED <<today, user_id, whoop_client, whoop_data, notifications, pure, whoop_vars>>

\* _handle_stats(message): the text of calculate_statistics(7) and (30), read
\* from the table, is answered; on an exception the error text instead
HandleStats(answer_ok, error_answer_ok) ==
    /\ LET replies == IF answer_ok THEN <<Reply("stats", TRUE)>>
                      ELSE <<Reply("stats", FALSE), Reply("error", error_answer_ok)>>
       IN  last' = [Idle EXCEPT !.op = "stats",
                                !.replies = replies,
                                !.raised = ~answer_ok /\ ~error_answer_ok]
    /\ UNCHANGED <<rows, today, clock, user_id, whoop_client, whoop_data, notifications, pure, whoop_vars>>

\* midnight passes
AdvanceDay ==
    /\ today + 1 \in Days
    /\ today' = today + 1
    /\ last' = Idle
    /\ UNCHANGED <<rows, clock, user_id, whoop_client, whoop_data, notifications, pure, whoop_vars>>

InitStore ==
    /\ rows = <<>>
    /\ today = 0
    /\ clock = 0
    /\ user_id = "None"
    /\ whoop_client = FALSE
    /\ whoop_data = [d \in Days |-> "none"]
    /\ notifications = <<>>
    /\ WhoopIdle
    /\ last = Idle
    /\ pure = PureIdle

NextStore ==
    \/ \E data \in Payloads, write_ok, answer_ok, error_answer_ok \in BOOLEAN :
          HandleButtonCallback(data, write_ok, answer_ok, error_answer_ok)
    \/ \E answer_ok, error_answer_ok \in BOOLEAN : HandleStats(answer_ok, error_answer_ok)
    \/ AdvanceDay

SpecStore == InitStore /\ [][NextStore]_vars

\* The process is started over a database file that already holds a day of
\* responses (the table is created IF NOT EXISTS and never emptied): the six
\* buttons pressed in slot order on day 0, before this run's first tick.
DayTable(choices) ==
    [i \in 1..6 |-> [date |-> 0, slot_id |-> get_all_slot_ids[i],
                     button_choice |-> choices[i], timestamp |-> i - 7]]

ExistingTables ==
    { DayTable(<<tok_success, tok_success, tok_success, tok_success, tok_success, tok_ideal>>),
      DayTable(<<tok_success, tok_success, tok_success, tok_success, tok_skip, tok_ideal>>),
      DayTable(<<tok_success, tok_success, tok_success, tok_success, tok_success, tok_normal>>) }

InitRestart ==
    /\ rows \in ExistingTables
    /\ today \in Days
    /\ clock = 0
    /\ user_id = "None"
    /\ whoop_client = FALSE
    /\ whoop_data = [d \in Days |-> "none"]
    /\ notifications = <<>>
    /\ WhoopIdle
    /\ last = Idle
    /\ pure = PureIdle

SpecRestart == InitRestart /\ [][NextStore]_vars

-----------------------------------------------------------------------------
(* The pure functions of slots.py and stats.py, applied to drawn inputs.   *)

MaxSegments == 4
MaxMinSlots == 5
MaxTotal == 2

RECURSIVE Join(_, _)
Join(segs, sep) ==
    IF Len(segs) = 1 THEN segs[1] ELSE segs[1] \o <<sep>> \o Join(Tail(segs), sep)

Segments ==
    { <<"s", "l", "o", "t">>, <<"s", "l", "o", "t", "s">>, S1, <<"S", "7">>, tok_skip, <<"x">>, <<>> }

ParseInputs ==
    ButtonPayloads(SlotIds) \cup MalformedPayloads
        \cup {Join(segs, "_") : segs \in UNION {[1..n -> Segments] : n \in 1..MaxSegments}}

\* the {slot_id: button_choice} dictionaries get_day_responses can return:
\* per slot no entry or one of the slot's tokens
DayResponses ==
    UNION { {r \in [D -> {tok_success, tok_skip, tok_ideal, tok_normal, tok_noise}] :
                \A s \in D : \E i \in DOMAIN SLOT_BUTTONS[s] : r[s] = SLOT_BUTTONS[s][i][2]}
            : D \in SUBSET SlotIds }

\* the statistics of one slot as get_slot_statistics returns them
SlotStats ==
    UNION { {[total |-> t, successful |-> k, percentage |-> Percentage(k, t)] : k \in 0..t}
            : t \in 0..MaxTotal }

\* slots_stats as calculate_statistics builds it, an entry for every slot;
\* S6 answered once and never "ideal", the lowest percentage of all
SlotsStatsInputs ==
    {[s \in SlotIds |->
         IF s = S6 THEN [total |-> 1, successful |-> 0, percentage |-> Percentage(0, 1)]
         ELSE f[s]] : f \in [{S1, S2, S3, S4, S5} -> SlotStats]}

InitPure ==
    /\ rows = <<>>
    /\ today = 0
    /\ clock = 0
    /\ user_id = "None"
    /\ whoop_client = FALSE
    /\ whoop_data = [d \in Days |-> "none"]
    /\ notifications = <<>>
    /\ WhoopIdle
    /\ last = Idle
    /\ \/ \E d \in ParseInputs :
            pure = [PureIdle EXCEPT !.fn = "parse_callback_data", !.arg = d]
       \/ \E r \in DayResponses, m \in 0..MaxMinSlots :
            pure = [PureIdle EXCEPT !.fn = "is_ideal_day", !.arg = r, !.min = m]
       \/ \E st \in SlotsStatsInputs :
            pure = [PureIdle EXCEPT !.fn = "_get_weakest_slot", !.arg = st]

ApplyParseCallbackData ==
    /\ pure.fn = "parse_callback_data" /\ ~pure.done
    /\ pure' = [pure EXCEPT !.done = TRUE, !.out = parse_callback_data(pure.arg)]
    /\ UNCHANGED <<rows, today, clock, user_id, whoop_client, whoop_data, notifications, last, whoop_vars>>

ApplyIsIdealDay ==
    /\ pure.fn = "is_ideal_day" /\ ~pure.done
    /\ pure' = [pure EXCEPT !.done = TRUE, !.out = is_ideal_day(pure.arg, pure.min)]
    /\ UNCHANGED <<rows, today, clock, user_id, whoop_client, whoop_data, notifications, last, whoop_vars>>

ApplyGetWeakestSlot ==
    /\ pure.fn = "_get_weakest_slot" /\ ~pure.done
    /\ pure' = [pure EXCEPT !.done = TRUE, !.out = get_weakest_slot(pure.arg)]
    /\ UNCHANGED <<rows, today, clock, user_id, whoop_client, whoop_data, notifications, last, whoop_vars>>

NextPure == ApplyParseCallbackData \/ ApplyIsIdealDay \/ ApplyGetWeakestSlot

SpecPure == InitPure /\ [][NextPure]_vars

-----------------------------------------------------------------------------
(* Properties of the response table (SpecStore, SpecRestart).              *)

MinSuccessfulSlots == 4
StatsWindows == {1, 7, 30}

\* the rows of a slot inside the window of `days` days that ends today
WindowRows(slot_id, days) ==
    {i \in DOMAIN rows : /\ rows[i].slot_id = slot_id
                         /\ rows[i].date > today - days
                         /\ rows[i].date <= today}

\* p is successful / total as a percentage rounded to one decimal (in tenths)
IsRoundedPercentage(p, successful, total) ==
    LET d == 1000 * successful - p * total
    IN  2 * (IF d < 0 THEN 0 - d ELSE d) <= total

\* C1: get_slot_statistics(slot, 7) made today reports as total the number of
\* the slot's responses dated within the last 7 days including today, as
\* successful the number of those whose stored token is the slot's success
\* token (ideal for S6), and as percentage successful / total * 100 rounded to
\* one decimal, 0.0 when total is 0.
C1_SlotStatisticsCountTokens ==
    \A s \in SlotIds :
        LET stat == get_slot_statistics(rows, s, 7)
            inside == WindowRows(s, 7)
            good == {i \in inside : is_successful_response(s, rows[i].button_choice)}
        IN  /\ stat.total = Cardinality(inside)
            /\ stat.successful = Cardinality(good)
            /\ IF inside = {} THEN stat.percentage = 0
               ELSE IsRoundedPercentage(stat.percentage, Cardinality(good), Cardinality(inside))

\* C2: get_ideal_days_count(days) is the number of days d of the window of
\* `days` days ending today for which the registry's is_ideal_day holds on
\* get_day_responses(d); calculate_statistics(1) reports ideal_days = 1 when
\* today's responses satisfy is_ideal_day.
C2_IdealDaysCountTokens ==
    /\ \A days \in StatsWindows :
        get_ideal_days_count(rows, days)
            = Cardinality({d \in (today - days + 1)..today :
                              is_ideal_day(get_day_responses(rows, d), MinSuccessfulSlots)})
    /\ is_ideal_day(get_day_responses(rows, today), MinSuccessfulSlots)
            => calculate_statistics(rows, 1).ideal_days = 1

\* the position in the table of the response saved last for a slot on a day
LastSaved(slot_id, day) ==
    LET of_slot == {i \in DOMAIN rows : rows[i].slot_id = slot_id /\ rows[i].date = day}
    IN  CHOOSE i \in of_slot : \A j \in of_slot : j <= i

\* C5: get_day_responses(today) maps each slot to the choice of the response
\* saved most recently for that slot today, and has no entry for a slot
\* without a response today.
C5_DayResponsesLatestWins ==
    LET responses == get_day_responses(rows, today) IN
    \A s \in SlotIds :
        IF \E i \in DOMAIN rows : rows[i].slot_id = s /\ rows[i].date = today
        THEN s \in DOMAIN responses /\ responses[s] = rows[LastSaved(s, today)].button_choice
        ELSE s \notin DOMAIN responses

\* a slot answered twice today with different choices
C5_Witness ==
    /\ \E i, j \in DOMAIN rows :
         /\ i < j
         /\ rows[i].slot_id = rows[j].slot_id
         /\ rows[i].date = today /\ rows[j].date = today
         /\ rows[i].button_choice # rows[j].button_choice
    /\ last.op = "callback"

ButtonTokens == {tok_success, tok_skip, tok_ideal, tok_normal, tok_noise}

\* the payloads of the form slot_<slot id>_<token>
WellFormedPayloads == {FormatCallback(s, t) : s \in SlotIds, t \in ButtonTokens}

\* C7: the rows of the response table only grow. A button callback with a
\* parseable payload whose write succeeds adds exactly one row, for today,
\* with the payload's slot and token; a callback with an unparseable payload
\* adds none; no step updates or deletes a row, and a step that is not a
\* button callback leaves the table as it is.
C7_RowsOnlyGrow ==
    [][ /\ Len(rows') >= Len(rows)
        /\ \A i \in DOMAIN rows : rows'[i] = rows[i]
        /\ last'.op # "callback" => rows' = rows
        /\ (last'.op = "callback" /\ last'.arg \notin WellFormedPayloads) => rows' = rows
        /\ (/\ last'.op = "callback" /\ last'.arg \in WellFormedPayloads
            /\ \E answer_ok, error_answer_ok \in BOOLEAN :
                  HandleButtonCallback(last'.arg, TRUE, answer_ok, error_answer_ok))
              => /\ Len(rows') = Len(rows) + 1
                 /\ rows'[Len(rows')].date = today
                 /\ last'.arg = FormatCallback(rows'[Len(rows')].slot_id,
                                               rows'[Len(rows')].button_choice)
      ]_vars

\* a callback has added a row to a table that already had one
C7_Witness ==
    /\ last.op = "callback"
    /\ Len(last.replies) = 1 /\ last.replies[1].text = "thanks"
    /\ Len(rows) >= 2
    /\ rows[Len(rows)].timestamp = clock - 1

-----------------------------------------------------------------------------
(* Properties of the pure functions (SpecPure).                            *)

Underscores(s) == {k \in DOMAIN s : s[k] = "_"}

\* the text between the first and the second underscore
SlotSegment(s) ==
    LET first == CHOOSE k \in Underscores(s) : \A j \in Underscores(s) : k <= j
        second == CHOOSE k \in Underscores(s) \ {first} : \A j \in Underscores(s) \ {first} : k <= j
    IN  SubSeq(s, first + 1, second - 1)

\* C4: for every slot id and every token of that slot's button list,
\* parse_callback_data of the callback data that get_slot_buttons builds
\* returns (slot id, token); it returns None for a string that does not begin
\* with slot_, that does not split into exactly three parts at underscores,
\* or whose slot part is not a known slot id.
C4_ParseCallbackRoundTrip ==
    (pure.fn = "parse_callback_data" /\ pure.done) =>
        /\ \A s \in SlotIds : \A i \in DOMAIN SLOT_BUTTONS[s] :
              pure.arg = get_slot_buttons(s)[i].callback_data
                  => pure.out = <<s, SLOT_BUTTONS[s][i][2]>>
        /\ ( \/ Len(pure.arg) < 5
             \/ SubSeq(pure.arg, 1, 5) # <<"s", "l", "o", "t", "_">>
             \/ Cardinality(Underscores(pure.arg)) # 2
             \/ SlotSegment(pure.arg) \notin SlotIds )
              => pure.out = None

\* the S6 "noise" button's callback data has been parsed back
C4_Witness ==
    /\ pure.fn = "parse_callback_data" /\ pure.done
    /\ pure.arg = FormatCallback(S6, tok_noise)
    /\ pure.out = <<S6, tok_noise>>

\* C3: is_ideal_day(responses, min) is true exactly when at least min of the
\* slots S1..S5 have the success token and S6 has the ideal token.
C3_IsIdealDay ==
    (pure.fn = "is_ideal_day" /\ pure.done) =>
        ( pure.out
            <=> /\ Cardinality({s \in {S1, S2, S3, S4, S5} \cap DOMAIN pure.arg :
                                   pure.arg[s] = tok_success}) >= pure.min
                /\ S6 \in DOMAIN pure.arg
                /\ pure.arg[S6] = tok_ideal )

\* four successes out of five with an ideal S6 and min 4: an ideal day
C3_Witness ==
    /\ pure.fn = "is_ideal_day" /\ pure.done
    /\ pure.min = 4
    /\ DOMAIN pure.arg = SlotIds
    /\ Cardinality({s \in {S1, S2, S3, S4, S5} : pure.arg[s] = tok_success}) = 4
    /\ pure.arg[S6] = tok_ideal
    /\ pure.out = TRUE

SlotIndex(slot_id) == CHOOSE i \in DOMAIN get_all_slot_ids : get_all_slot_ids[i] = slot_id

\* C6: _get_weakest_slot returns the slot with the lowest percentage among
\* the slots S1..S5 whose total is above 0, the first in slot order on a tie,
\* never S6, and None only when no slot S1..S5 has a recorded response.
C6_WeakestSlot ==
    (pure.fn = "_get_weakest_slot" /\ pure.done) =>
        LET with_data == {s \in {S1, S2, S3, S4, S5} \cap DOMAIN pure.arg : pure.arg[s].total > 0}
        IN  IF with_data = {} THEN pure.out = None
            ELSE /\ pure.out \in with_data
                 /\ \A s \in with_data :
                      \/ pure.arg[pure.out].percentage < pure.arg[s].percentage
                      \/ /\ pure.arg[pure.out].percentage = pure.arg[s].percentage
                         /\ SlotIndex(pure.out) <= SlotIndex(s)

-----------------------------------------------------------------------------
(* The WHOOP client (whoop_client.py): the OAuth token record and the      *)
(* requests to the WHOOP servers.  Time is counted in units of 150         *)
(* seconds.  A client call is a function of the stored tokens, of how the  *)
(* servers answer and of the time; it yields the tokens it leaves stored,  *)
(* the requests it sent in order, and its result or the error it raises.   *)
(* Reads and writes of the whoop_tokens table succeed.                     *)

MaxNow == 2

AccessTokens == {"at1", "at2"}

RefreshTokens == {"rt1", "rt2"}

\* expires_in of a token response: beyond the refresh margin
ExpiresIn == {3}

\* _get_access_token refreshes a token that expires in less than 300 seconds
RefreshMargin == 2

\* save_whoop_tokens: the row written at time t
save_whoop_tokens(access_token, refresh_token, expires_in, t) ==
    [access_token |-> access_token, refresh_token |-> refresh_token, expires_at |-> t + expires_in]

\* update_whoop_tokens: the row after the UPDATE at time t (no row: no change)
update_whoop_tokens(tokens, access_token, expires_in, t) ==
    IF tokens = NoTokens THEN tokens
    ELSE [tokens EXCEPT !.access_token = access_token, !.expires_at = t + expires_in]

\* The answers of the token URL: HTTP 200 with a body that may lack either
\* token, an error status, or no answer (status 0, a transport error).
GrantResponses ==
    {[status |-> 200, access_token |-> a, refresh_token |-> r, expires_in |-> e] :
        a \in AccessTokens \cup {"None"}, r \in RefreshTokens \cup {"None"}, e \in ExpiresIn}
    \cup {[status |-> s, access_token |-> "None", refresh_token |-> "None", expires_in |-> 1] :
            s \in {400, 401, 500, 0}}

BearerSets == SUBSET AccessTokens

\* the servers: the answer of the token URL and the bearer tokens the data
\* endpoints accept (any other bearer token is answered 401)
ApiStates == [grant : GrantResponses, accepts : BearerSets]

\* requests on the wire
TokenRequest(grant_type) == [to |-> "token_url", with |-> grant_type]

DataRequest(access_token) == [to |-> "api_url", with |-> access_token]

\* results of a client call
Returned(tokens, net, value) == [tokens |-> tokens, net |-> net, raised |-> "None", value |-> value]

Raised(tokens, net, error) == [tokens |-> tokens, net |-> net, raised |-> error, value |-> "None"]

exchange_code_for_tokens_dropping_the_row(tokens, api, t) ==
    LET grant == api.grant
        net == <<TokenRequest("authorization_code")>>
    IN  IF grant.status # 200 \/ grant.access_token = "None"
        THEN Raised(NoTokens, net, "exchange_failed")
        ELSE LET refresh_token == IF grant.refresh_token = "None"
                                  THEN grant.access_token ELSE grant.refresh_token
             IN  Returned(save_whoop_tokens(grant.access_token, refresh_token, grant.expires_in, t),
                          net, grant.access_token)

\* exchange_code_for_tokens at time t; the returned dictionary is abridged
\* to its access token.  Every failure is raised as ValueError("Failed to
\* exchange code ...").
exchange_code_for_tokens(tokens, api, t) ==
    LET grant == api.grant
        net == <<TokenRequest("authorization_code")>>
    IN  IF grant.status # 200 \/ grant.access_token = "None"
        THEN Raised(tokens, net, "exchange_failed")
        ELSE LET refresh_token == IF grant.refresh_token = "None"
                                  THEN grant.access_token ELSE grant.refresh_token
             IN  Returned(save_whoop_tokens(grant.access_token, refresh_token, grant.expires_in, t),
                          net, grant.access_token)

refresh_access_token_always_posts(tokens, api, t) ==
    IF tokens = NoTokens THEN Raised(tokens, <<>>, "no_tokens")
    ELSE LET grant == api.grant
             net == <<TokenRequest("refresh_token")>>
         IN  IF grant.status \in {400, 401} THEN Raised(tokens, net, "reconnect")
             ELSE IF grant.status # 200 \/ grant.access_token = "None"
             THEN Raised(tokens, net, "refresh_failed")
             ELSE Returned(update_whoop_tokens(tokens, grant.access_token, grant.expires_in, t),
                           net, grant.access_token)

\* refresh_access_token at time t.  Errors: "no_tokens"; "reconnect", the
\* ValueError asking to reconnect via /whoop_connect (HTTP 400 or 401);
\* "refresh_failed", every other failure.
refresh_access_token(tokens, api, t) ==
    IF tokens = NoTokens THEN Raised(tokens, <<>>, "no_tokens")
    ELSE IF tokens.refresh_token = tokens.access_token
    THEN Returned(tokens, <<>>, tokens.access_token)
    ELSE LET grant == api.grant
             net == <<TokenRequest("refresh_token")>>
         IN  IF grant.status \in {400, 401} THEN Raised(tokens, net, "reconnect")
             ELSE IF grant.status # 200 \/ grant.access_token = "None"
             THEN Raised(tokens, net, "refresh_failed")
             ELSE LET updated == update_whoop_tokens(tokens, grant.access_token, grant.expires_in, t)
                      new_refresh_token == IF grant.refresh_token = "None"
                                           THEN tokens.refresh_token ELSE grant.refresh_token
                  IN  Returned(IF new_refresh_token # tokens.refresh_token
                               THEN save_whoop_tokens(grant.access_token, new_refresh_token,
                                                      grant.expires_in, t)
                               ELSE updated,
                               net, grant.access_token)

\* the stored token has expired or expires within the margin
ExpiresSoon(tokens, t) == tokens.expires_at - t < RefreshMargin

\* the one element of a singleton; Only({F(x) : x \in {e}}) is F applied to
\* the value of e, computed once
Only(S) == CHOOSE x \in S : TRUE

\* _get_access_token: a failed refresh is logged and the stored token returned
get_access_token(tokens, api, t) ==
    IF tokens = NoTokens THEN Raised(tokens, <<>>, "no_tokens")
    ELSE IF ExpiresSoon(tokens, t) /\ tokens.refresh_token # tokens.access_token
    THEN Only({IF refreshed.raised = "None" THEN refreshed
               ELSE Returned(refreshed.tokens, refreshed.net, tokens.access_token) :
               refreshed \in {refresh_access_token(tokens, api, t)}})
    ELSE Returned(tokens, <<>>, tokens.access_token)

\* the statuses a data endpoint answers to a bearer token it accepts: 200,
\* 429 (rate limit), 500, or no answer (0)
EndpointStatuses == {200, 429, 500, 0}

make_request_max_retries == 3

\* asyncio.sleep(wait_seconds) before the retry after a 429, as an entry of
\* the trace of a call
Sleep == [to |-> "sleep", with |-> "Retry-After"]

\* the HTTP requests of a trace
Requests(net) == SelectSeq(net, LAMBDA entry : entry.to # "sleep")

\* _make_request from attempt number `attempt` on; statuses[attempt + 1] is
\* what the endpoint answers to the data request of that attempt.  Errors:
\* "reconnect", a ValueError whose text asks to reconnect via /whoop_connect;
\* "rate_limit", the one whose text says the rate limit is exceeded;
\* "api_error", any other "WHOOP API error"; "no_valid_token" after the last
\* attempt.
RECURSIVE make_request_from(_, _, _, _, _, _)

request_with_token_retrying_any_error(attempt, got, sent, api, t, statuses) ==
    LET code == IF got.value \in api.accepts THEN statuses[attempt + 1] ELSE 401
        more == attempt < make_request_max_retries - 1
    IN  IF code = 401
        THEN IF more
             THEN Only({IF refreshed.raised = "None"
                        THEN make_request_from(attempt + 1, refreshed.tokens,
                                               sent \o refreshed.net, api, t, statuses)
                        ELSE Raised(refreshed.tokens, sent \o refreshed.net, "reconnect") :
                        refreshed \in {refresh_access_token(got.tokens, api, t)}})
             ELSE Raised(got.tokens, sent, "reconnect")
        ELSE IF code = 200 THEN Returned(got.tokens, sent, "records")
        ELSE IF more
             THEN make_request_from(attempt + 1, got.tokens, Append(sent, Sleep), api, t, statuses)
             ELSE Raised(got.tokens, sent, IF code = 429 THEN "rate_limit" ELSE "api_error")

\* the rest of an attempt: `got` is what _get_access_token returned, `sent`
\* the trace so far, the data request with that token included
request_with_token(attempt, got, sent, api, t, statuses) ==
    LET code == IF got.value \in api.accepts THEN statuses[attempt + 1] ELSE 401
        more == attempt < make_request_max_retries - 1
    IN  IF code = 401
        THEN IF more
             THEN Only({IF refreshed.raised = "None"
                        THEN make_request_from(attempt + 1, refreshed.tokens,
                                               sent \o refreshed.net, api, t, statuses)
                        ELSE Raised(refreshed.tokens, sent \o refreshed.net, "reconnect") :
                        refreshed \in {refresh_access_token(got.tokens, api, t)}})
             ELSE Raised(got.tokens, sent, "reconnect")
        ELSE IF code = 429
        THEN IF more
             THEN make_request_from(attempt + 1, got.tokens, Append(sent, Sleep), api, t, statuses)
             ELSE Raised(got.tokens, sent, "rate_limit")
        ELSE IF code = 200 THEN Returned(got.tokens, sent, "records")
        ELSE Raised(got.tokens, sent, "api_error")

make_request_from(attempt, tokens, net, api, t, statuses) ==
    IF attempt >= make_request_max_retries THEN Raised(tokens, net, "no_valid_token")
    ELSE Only({IF got.raised # "None" THEN Raised(got.tokens, net \o got.net, "api_error")
               ELSE request_with_token(attempt, got,
                                       (net \o got.net) \o <<DataRequest(got.value)>>,
                                       api, t, statuses) :
               got \in {get_access_token(tokens, api, t)}})

\* _make_request(user_id, endpoint), the endpoint answering `status` to
\* every attempt
make_request(tokens, api, t, status) ==
    make_request_from(0, tokens, <<>>, api, t,
                      [attempt \in 1..make_request_max_retries |-> status])

\* The day's answer of one data endpoint, through its getter (get_cycle,
\* get_recovery, get_sleep, get_workouts):
\*   "value"     records whose first one carries the value read from it
\*               (score.strain, score.recovery_score, the time in bed;
\*               workouts with a positive strain)
\*   "no_value"  records without it (workouts whose strains sum to 0)
\*   "empty"     HTTP 200 without records
\*   "error"     HTTP 500
EndpointNames == {"cycle", "recovery", "sleep", "workout"}

EndpointOutcomes == {"value", "no_value", "empty", "error"}

Endpoints == [EndpointNames -> EndpointOutcomes]

\* a getter: the first record, absent when the request raises or nothing is
\* recorded for the day (get_workouts: the list, empty when the request raises)
get_records(tokens, api, t, outcome) ==
    Only({[tokens |-> response.tokens, net |-> response.net, raised |-> response.raised,
           records |-> IF response.raised # "None" \/ outcome \in {"empty", "error"}
                       THEN "None" ELSE outcome] :
          response \in {make_request(tokens, api, t, IF outcome = "error" THEN 500 ELSE 200)}})

\* the result of get_all_data: a client call's, and the endpoints whose
\* request raised (logged by the getters)
Aggregated(tokens, net, raised, value, failed) ==
    [tokens |-> tokens, net |-> net, raised |-> raised, value |-> value, failed |-> failed]

NoMetrics ==
    [recovery_score |-> "None", sleep_duration |-> "None", strain_score |-> "None",
     workouts_count |-> 0, raw_data |-> {}]

\* the aggregate built from what the four getters returned, the strain
\* being `strain`
Aggregate(cycle, recovery, sleep, workouts, strain) ==
    Aggregated(workouts.tokens,
               ((cycle.net \o recovery.net) \o sleep.net) \o workouts.net,
               "None",
               [recovery_score |-> IF recovery.records = "value" THEN "recovery" ELSE "None",
                sleep_duration |-> IF sleep.records = "value" THEN "sleep" ELSE "None",
                strain_score   |-> strain,
                workouts_count |-> IF workouts.records = "None" THEN 0 ELSE 1,
                raw_data |-> {"workouts"}
                    \cup (IF cycle.records = "None" THEN {} ELSE {"cycle"})
                    \cup (IF recovery.records = "None" THEN {} ELSE {"recovery"})
                    \cup (IF sleep.records = "None" THEN {} ELSE {"sleep"})],
               {e \in EndpointNames :
                    [cycle |-> cycle, recovery |-> recovery, sleep |-> sleep,
                     workout |-> workouts][e].raised # "None"})

\* the strain of the aggregate: the cycle's, else the sum of the workouts'
\* when it is positive
StrainFrom(cycle, workouts) ==
    IF cycle.records = "value" THEN "cycle"
    ELSE IF workouts.records = "value" THEN "workout"
    ELSE "None"

\* the four getters in their order, each with the tokens the one before left
GetFour(tokens, api, t, endpoints) ==
    UNION {UNION {UNION {
        {[cycle |-> cycle, recovery |-> recovery, sleep |-> sleep, workouts |-> workouts] :
            workouts \in {get_records(sleep.tokens, api, t, endpoints["workout"])}} :
            sleep \in {get_records(recovery.tokens, api, t, endpoints["sleep"])}} :
            recovery \in {get_records(cycle.tokens, api, t, endpoints["recovery"])}} :
            cycle \in {get_records(tokens, api, t, endpoints["cycle"])}}

get_all_data_raising(tokens, api, t, endpoints) ==
    Only({Aggregated(cycle.tokens, cycle.net, cycle.raised,
                     [NoMetrics EXCEPT !.strain_score = IF cycle.records = "value" THEN "cycle" ELSE "None"],
                     IF cycle.raised = "None" THEN {} ELSE {"cycle"}) :
          cycle \in {get_records(tokens, api, t, endpoints["cycle"])}})

get_all_data_without_workout_strain(tokens, api, t, endpoints) ==
    Only({Aggregate(got.cycle, got.recovery, got.sleep, got.workouts,
                    IF got.cycle.records = "value" THEN "cycle" ELSE "None") :
          got \in GetFour(tokens, api, t, endpoints)})

\* get_all_data: the aggregate names, for each metric, the endpoint it was
\* read from ("None": absent); workouts_count is 1 for a day with workouts
get_all_data(tokens, api, t, endpoints) ==
    Only({Aggregate(got.cycle, got.recovery, got.sleep, got.workouts,
                    StrainFrom(got.cycle, got.workouts)) :
          got \in GetFour(tokens, api, t, endpoints)})

-----------------------------------------------------------------------------
(* bot.py /start and send_slot_message; scheduler.py: the scheduled jobs.  *)

Users == {"u1", "u2"}
MaxNotifications == 1

Send(chat_id, text, buttons, ok) ==
    [chat_id |-> chat_id, text |-> text, buttons |-> buttons, ok |-> ok]

HandleStartRebinding(user, whoop_auth, answer_ok) ==
    /\ user_id' = user
    /\ last' = [Idle EXCEPT !.op = "start", !.user = user,
                            !.replies = <<Reply(IF whoop_auth THEN "whoop_auth" ELSE "welcome", answer_ok)>>,
                            !.raised = ~answer_ok]
    /\ UNCHANGED <<rows, today, clock, whoop_client, whoop_data, notifications, pure, whoop_vars>>

\* _handle_start: the scheduler takes the user id only while it has none;
\* then the WHOOP deep-link branch or the welcome text
HandleStart(user, whoop_auth, answer_ok) ==
    /\ user_id' = IF user_id = "None" THEN user ELSE user_id
    /\ last' = [Idle EXCEPT !.op = "start", !.user = user,
                            !.replies = <<Reply(IF whoop_auth THEN "whoop_auth" ELSE "welcome", answer_ok)>>,
                            !.raised = ~answer_ok]
    /\ UNCHANGED <<rows, today, clock, whoop_client, whoop_data, notifications, pure, whoop_vars>>

\* LLMClient.generate_slot_message: one request; the slot's fallback message
\* on an empty answer or any exception, never an exception
generate_slot_message(llm_result) ==
    IF llm_result = "text" THEN "generated" ELSE "fallback_message"

send_fallback_uncaught(slot_id, chat_id, fallback_ok) ==
    Effect(<<Send(chat_id, "fallback_message", get_slot_buttons(slot_id), fallback_ok)>>, 0, 0, ~fallback_ok)

\* the except branch of send_slot_message: the configured fallback message
\* with the slot's buttons, its own failure logged
send_fallback(slot_id, chat_id, fallback_ok) ==
    Effect(<<Send(chat_id, "fallback_message", get_slot_buttons(slot_id), fallback_ok)>>, 0, 0, FALSE)

AsksApi_without_client(slot_id) == slot_id = S6 /\ whoop_data[today] = "none"

\* whether send_slot_message asks the wearable API, and whether it then has
\* metrics to show
AsksApi(slot_id) == slot_id = S6 /\ whoop_client /\ whoop_data[today] = "none"

HasMetrics(slot_id, env) ==
    /\ slot_id = S6 /\ whoop_client
    /\ \/ whoop_data[today] = "metrics"
       \/ whoop_data[today] = "none" /\ env.api = "metrics"

send_slot_message_without_fallback(slot_id, chat_id, env) ==
    IF ~env.context_ok THEN Effect(<<>>, 0, 0, FALSE)
    ELSE Effect(<<Send(chat_id, generate_slot_message(env.llm_result),
                       get_slot_buttons(slot_id), env.main_ok)>>, 1, 0, FALSE)

\* send_slot_message(slot_id, user_id)
send_slot_message(slot_id, chat_id, env) ==
    LET block == IF HasMetrics(slot_id, env)
                 THEN <<Send(chat_id, "whoop_block", None, env.block_ok)>> ELSE <<>>
        main == <<Send(chat_id, generate_slot_message(env.llm_result),
                       get_slot_buttons(slot_id), env.main_ok)>>
        whoop_calls == IF AsksApi(slot_id) THEN 1 ELSE 0
        \* the try block, up to the first exception
        tried == IF ~env.context_ok THEN Effect(<<>>, 0, 0, TRUE)
                 ELSE IF HasMetrics(slot_id, env) /\ ~env.block_ok
                 THEN Effect(block, 0, whoop_calls, TRUE)
                 ELSE Effect(block \o main, 1, whoop_calls, ~env.main_ok)
        fallback == send_fallback(slot_id, chat_id, env.fallback_ok)
    IN  IF tried.raised
        THEN Effect(tried.sends \o fallback.sends, tried.llm, tried.whoop, fallback.raised)
        ELSE tried

max_retries == 3

\* retry_delay = 2.0, in seconds
retry_delay == 2

\* wait_time = retry_delay * (2 ** attempt), attempt counted from 0
wait_time(attempt) == retry_delay * 2 ^ attempt

\* the for loop of _send_slot_job from the attempt-th call of
\* send_slot_message on, effects[attempt] being what that call does: the loop
\* ends at the first call that does not raise, or after max_retries calls,
\* and sleeps wait_time between two calls
RECURSIVE SlotJobAttempts(_, _, _)

SlotJobAttempts_raising_at_last(attempt, effects, done) ==
    LET effect == effects[attempt]
        so_far == [done EXCEPT !.sends = @ \o effect.sends, !.llm = @ + effect.llm,
                            !.whoop = @ + effect.whoop, !.attempts = attempt,
                            !.message = effect]
    IN  IF ~effect.raised THEN so_far
        ELSE IF attempt >= max_retries THEN [so_far EXCEPT !.raised = TRUE]
        ELSE SlotJobAttempts(attempt + 1, effects,
                             [so_far EXCEPT !.waits = Append(@, wait_time(attempt - 1))])

SlotJobAttempts(attempt, effects, done) ==
    LET effect == effects[attempt]
        so_far == [done EXCEPT !.sends = @ \o effect.sends, !.llm = @ + effect.llm,
                            !.whoop = @ + effect.whoop, !.attempts = attempt,
                            !.message = effect]
    IN  IF attempt >= max_retries \/ ~effect.raised THEN so_far
        ELSE SlotJobAttempts(attempt + 1, effects,
                             [so_far EXCEPT !.waits = Append(@, wait_time(attempt - 1))])

\* the same call of send_slot_message at every attempt
EveryAttempt(effect) == [attempt \in 1..max_retries |-> effect]

send_slot_job_unguarded(slot_id, env) ==
    SlotJobAttempts(1, EveryAttempt(send_slot_message(slot_id, user_id, env)),
                    [Idle EXCEPT !.op = "_send_slot_job", !.arg = slot_id, !.env = env])

\* _send_slot_job(slot_id)
send_slot_job(slot_id, env) ==
    IF user_id = "None" THEN [Idle EXCEPT !.op = "_send_slot_job", !.arg = slot_id, !.env = env]
    ELSE SlotJobAttempts(1, EveryAttempt(send_slot_message(slot_id, user_id, env)),
                         [Idle EXCEPT !.op = "_send_slot_job", !.arg = slot_id, !.env = env])

\* the outcomes of the calls the run does not reach are left at their defaults
ReachedCalls(slot_id, env) ==
    /\ user_id = "None" => env = NoEnv
    /\ ~env.context_ok =>
          env = [NoEnv EXCEPT !.context_ok = FALSE, !.fallback_ok = env.fallback_ok]
    /\ ~AsksApi(slot_id) => env.api = NoEnv.api
    /\ ~HasMetrics(slot_id, env) => env.block_ok
    /\ ~env.block_ok => env.llm_result = NoEnv.llm_result /\ env.main_ok
    /\ (env.context_ok /\ env.block_ok /\ env.main_ok) => env.fallback_ok

Envs ==
    [context_ok : BOOLEAN, api : {"metrics", "empty", "raise"},
     llm_result : {"text", "empty", "raise"},
     block_ok : BOOLEAN, main_ok : BOOLEAN, fallback_ok : BOOLEAN]

SendSlotJob(slot_id, env) ==
    /\ ReachedCalls(slot_id, env)
    /\ last' = send_slot_job(slot_id, env)
    /\ UNCHANGED <<rows, today, clock, user_id, whoop_client, whoop_data, notifications, pure, whoop_vars>>

\* _update_whoop_data_job, scheduled when WHOOP is configured.  The token
\* check's exception is logged; a ValueError of get_all_data is raised on,
\* after the reconnect message when its text names reconnect or expired;
\* any other exception (save_whoop_data: sqlite3.Error) is logged.
UpdateWhoopDataJob(endpoints, save_ok, notify_ok) ==
    /\ whoop_client
    /\ LET run == [Idle EXCEPT !.op = "_update_whoop_data_job"]
       IN  IF user_id = "None"
           THEN last' = run /\ UNCHANGED <<whoop_data, whoop_tokens>>
           ELSE \E check \in {get_access_token(whoop_tokens, whoop_api, now)} :
                \E data \in {get_all_data(check.tokens, whoop_api, now, endpoints)} :
                    /\ whoop_tokens' = data.tokens
                    /\ whoop_data' =
                         IF data.raised = "None" /\ save_ok
                         THEN [whoop_data EXCEPT ![today] =
                                  IF /\ data.value.recovery_score = "None"
                                     /\ data.value.sleep_duration = "None"
                                     /\ data.value.strain_score = "None"
                                  THEN "empty" ELSE "metrics"]
                         ELSE whoop_data
                    /\ last' = [run EXCEPT
                          !.whoop = 2,
                          !.sends = IF data.raised = "reconnect"
                                    THEN <<Send(user_id, "reconnect", None, notify_ok)>> ELSE <<>>,
                          !.raised = data.raised # "None"]
    /\ UNCHANGED <<rows, today, clock, user_id, whoop_client, notifications, pure,
                   whoop_api, now, user_settings, stress, runtime, refreshes>>

\* _check_stress_job, scheduled when WHOOP and its monitoring are configured
\*   cycle  get_cycle: "raise", "none", "no_strain", or a strain "below" or
\*          "above" (at or over) the threshold
CheckStressJob(enabled, in_hours, within_cooldown, token_ok, cycle, recovery_ok, advice_ok, send_ok, save_ok) ==
    /\ whoop_client
    /\ LET run == [Idle EXCEPT !.op = "_check_stress_job"]
           cooldown == notifications # <<>> /\ within_cooldown
           checks == user_id # "None" /\ enabled /\ in_hours /\ ~cooldown
           alerts == checks /\ token_ok /\ cycle = "above"
           sent == alerts /\ advice_ok /\ send_ok
           saved == sent /\ save_ok
       IN  /\ saved => Len(notifications) < MaxNotifications
           /\ notifications' =
                IF saved
                THEN Append(notifications, [user_id |-> user_id, type |-> "high_strain", sent_at |-> clock])
                ELSE notifications
           /\ last' = [run EXCEPT
                !.whoop = IF ~checks THEN 0 ELSE IF ~token_ok THEN 1 ELSE IF alerts THEN 3 ELSE 2,
                !.llm = IF alerts THEN 1 ELSE 0,
                !.sends = IF alerts /\ advice_ok
                          THEN <<Send(user_id, IF recovery_ok THEN "high_strain_recovery" ELSE "high_strain",
                                      None, send_ok)>>
                          ELSE <<>>]
    /\ UNCHANGED <<rows, today, clock, user_id, whoop_client, whoop_data, pure, whoop_vars>>

\* _send_weekly_report_job
\*   analytics  _get_analytics_module: "none", "module" or "raise"
\*   report     generate_weekly_report: "short", "long" (two parts) or "raise"
SendWeeklyReportJob(analytics, report, send_ok, part_ok, error_send_ok) ==
    /\ LET run == [Idle EXCEPT !.op = "_send_weekly_report_job"]
           body == IF analytics = "none" THEN <<Send(user_id, "report_unavailable", None, send_ok)>>
                   ELSE IF analytics = "raise" \/ report = "raise" THEN <<>>
                   ELSE IF report = "short" THEN <<Send(user_id, "report", None, send_ok)>>
                   ELSE IF ~send_ok THEN <<Send(user_id, "report_part", None, FALSE)>>
                   ELSE <<Send(user_id, "report_part", None, TRUE), Send(user_id, "report_part", None, part_ok)>>
           failed == \/ analytics = "raise"
                     \/ analytics = "module" /\ report = "raise"
                     \/ \E i \in DOMAIN body : ~body[i].ok
       IN  IF user_id = "None" THEN last' = run
           ELSE last' = [run EXCEPT
                  !.sends = IF failed THEN body \o <<Send(user_id, "report_error", None, error_send_ok)>>
                            ELSE body]
    /\ UNCHANGED <<rows, today, clock, user_id, whoop_client, whoop_data, notifications, pure, whoop_vars>>

\* main(): TELEGRAM_USER_ID gives the scheduler its user id, or none does;
\* the WHOOP client exists when WHOOP is configured
\* the day's answers the nightly job meets: every endpoint with its value,
\* every endpoint without records, every endpoint failing
JobEndpoints == {[e \in EndpointNames |-> outcome] : outcome \in {"value", "empty", "error"}}

InitSched ==
    /\ rows = <<>>
    /\ today = 0
    /\ clock = 0
    /\ user_id \in {"None"} \cup Users
    /\ whoop_client \in BOOLEAN
    /\ whoop_data = [d \in Days |-> "none"]
    /\ notifications = <<>>
    /\ WhoopIdle
    /\ last = Idle
    /\ pure = PureIdle

NextSched ==
    \/ \E user \in Users, whoop_auth, answer_ok \in BOOLEAN : HandleStart(user, whoop_auth, answer_ok)
    \/ \E slot_id \in SlotIds, env \in Envs : SendSlotJob(slot_id, env)
    \/ \E endpoints \in JobEndpoints, save_ok, notify_ok \in BOOLEAN :
            UpdateWhoopDataJob(endpoints, save_ok, notify_ok)
    \/ \E enabled, in_hours, within_cooldown, token_ok, recovery_ok, advice_ok, send_ok, save_ok \in BOOLEAN,
          cycle \in {"raise", "none", "no_strain", "below", "above"} :
            CheckStressJob(enabled, in_hours, within_cooldown, token_ok, cycle, recovery_ok,
                           advice_ok, send_ok, save_ok)
    \/ \E analytics \in {"none", "module", "raise"}, report \in {"short", "long", "raise"},
          send_ok, part_ok, error_send_ok \in BOOLEAN :
            SendWeeklyReportJob(analytics, report, send_ok, part_ok, error_send_ok)

SpecSched == InitSched /\ [][NextSched]_vars

\* The jobs with a connected client.  The token rows: none, or one written
\* at time 0 with a refresh token; at time MaxNow that row is inside the
\* refresh margin.
JobTokens == {NoTokens} \cup {save_whoop_tokens("at1", "rt1", e, 0) : e \in ExpiresIn}

\* the servers: out of reach; refusing the refresh and the bearer token;
\* refusing the refresh and still accepting the bearer token; granting a new
\* token and accepting it
JobApis ==
    {api \in ApiStates :
        \/ api = ApiDown
        \/ api.grant.status = 400 /\ api.accepts \in {{}, {"at1"}}
        \/ /\ api.grant.status = 200
           /\ api.grant.access_token = "at2" /\ api.grant.refresh_token = "rt2"
           /\ api.accepts = {"at2"}}

InitJobs ==
    /\ rows = <<>>
    /\ today = 0
    /\ clock = 0
    /\ user_id = "u1"
    /\ whoop_client = TRUE
    /\ whoop_data = [d \in Days |-> "none"]
    /\ notifications = <<>>
    /\ last = Idle
    /\ pure = PureIdle
    /\ whoop_tokens \in JobTokens
    /\ whoop_api \in JobApis
    /\ now = MaxNow
    /\ user_settings = [monitoring_enabled |-> TRUE, stress_threshold |-> Num(stress_threshold)]
    /\ stress = StressIdle
    /\ runtime = RuntimeIdle
    /\ refreshes = RefreshIdle

SpecJobs == InitJobs /\ [][NextSched]_vars

-----------------------------------------------------------------------------
(* Properties of the scheduler's user id and jobs (SpecSched).             *)

\* C8: the scheduler's user id is assigned at most once: once it is set, from
\* TELEGRAM_USER_ID at startup or by the first /start, no later step, a
\* /start from any user included, changes it.
C8_UserIdAssignedOnce ==
    [][user_id # "None" => user_id' = user_id]_vars

\* a /start from another user than the one the scheduler is bound to
C8_Witness ==
    /\ last.op = "start"
    /\ user_id # "None"
    /\ last.user # user_id

JobOps ==
    {"_send_slot_job", "_update_whoop_data_job", "_check_stress_job", "_send_weekly_report_job"}

\* C9: while the scheduler has no user id, a run of a scheduled job (slot
\* send, nightly refresh, stress check, weekly report) sends no chat message,
\* makes no wearable and no LLM request, and changes nothing.
C9_JobsIdleWithoutUser ==
    [][(user_id = "None" /\ last'.op \in JobOps) =>
          /\ last'.sends = <<>>
          /\ last'.llm = 0
          /\ last'.whoop = 0
          /\ last'.attempts = 0
          /\ ~last'.raised
          /\ UNCHANGED <<rows, user_id, whoop_data, notifications>>
      ]_vars

\* the S6 job has run with WHOOP configured and no user id
C9_Witness ==
    /\ user_id = "None"
    /\ whoop_client
    /\ last.op = "_send_slot_job"
    /\ last.arg = S6

\* C10: send_slot_message never lets an exception out. When building the
\* context or a send fails, it makes exactly one further send: the slot's
\* fallback message with the slot's buttons; the outcome of that send does
\* not change how it returns. When the LLM fails, the fallback message is
\* what it sends with the buttons. Without a failure every send succeeded
\* and the last one carries the slot's buttons.
C10_SendSlotMessageNeverRaises ==
    (last.op = "_send_slot_job" /\ last.attempts >= 1) =>
        LET env == last.env
            sends == last.message.sends
            n == Len(sends)
            failures == {i \in 1..n : ~sends[i].ok}
            fallback == Send(user_id, "fallback_message", get_slot_buttons(last.arg), env.fallback_ok)
        IN  /\ ~last.message.raised
            /\ last.attempts = 1
            /\ IF ~env.context_ok THEN sends = <<fallback>>
               ELSE IF ~env.block_ok \/ ~env.main_ok
               THEN /\ n >= 2
                    /\ sends[n] = fallback
                    /\ ~sends[n - 1].ok
                    /\ failures \subseteq {n - 1, n}
               ELSE /\ failures = {}
                    /\ n >= 1
                    /\ sends[n].buttons = get_slot_buttons(last.arg)
                    /\ sends[n].chat_id = user_id
                    /\ sends[n].text = (IF env.llm_result = "text" THEN "generated" ELSE "fallback_message")

\* the slot message could not be sent, and neither could the fallback
C10_Witness ==
    /\ last.op = "_send_slot_job"
    /\ last.attempts = 1
    /\ last.env.context_ok
    /\ ~last.env.main_ok
    /\ ~last.env.fallback_ok
    /\ Len(last.message.sends) = 2
    /\ ~last.message.raised

\* the messages of the last run that reached the user with the slot's buttons
DeliveredWithButtons ==
    {i \in DOMAIN last.sends :
        /\ last.sends[i].ok
        /\ last.sends[i].chat_id = user_id
        /\ last.sends[i].buttons = get_slot_buttons(last.arg)}

\* C11: with a user bound and every send accepted by the chat platform, a run
\* of a slot job ends with exactly one message carrying the slot's buttons
\* delivered to the user, whatever the LLM call, the wearable call and the
\* context reads did; when the context was built, an LLM failure only makes
\* the text the fallback message.
C11_SlotJobDelivers ==
    (/\ last.op = "_send_slot_job" /\ user_id # "None"
     /\ last.env.block_ok /\ last.env.main_ok /\ last.env.fallback_ok) =>
        /\ ~last.raised
        /\ Cardinality(DeliveredWithButtons) = 1
        /\ \A i \in DeliveredWithButtons :
              /\ i = Len(last.sends)
              /\ last.env.context_ok =>
                    last.sends[i].text =
                        (IF last.env.llm_result = "text" THEN "generated" ELSE "fallback_message")
              /\ ~last.env.context_ok => last.sends[i].text = "fallback_message"

\* the S6 job ran while both the wearable API and the LLM failed
C11_Witness ==
    /\ last.op = "_send_slot_job" /\ user_id # "None"
    /\ last.arg = S6 /\ whoop_client
    /\ last.env.context_ok
    /\ last.env.api = "raise" /\ last.whoop = 1
    /\ last.env.llm_result = "raise"
    /\ last.env.main_ok
    /\ DeliveredWithButtons # {}

-----------------------------------------------------------------------------
(* llm_client.py: the completion call and the two generators.              *)

\* str.strip() for the blank
RECURSIVE Strip(_)
Strip(text) ==
    IF text = <<>> THEN text
    ELSE IF Head(text) = " " THEN Strip(Tail(text))
    ELSE IF text[Len(text)] = " " THEN Strip(SubSeq(text, 1, Len(text) - 1))
    ELSE text

\* what one POST to the completion endpoint can come to:
\*   "content"    200 with choices[0].message.content = content
\*   "no_choices" 200 without choices
\*   "timeout"    httpx.TimeoutException
\*   "http_5xx", "http_4xx"  raise_for_status raises HTTPStatusError
\*   "error"      any other exception (connection, JSON, missing key)
Content(text) == [kind |-> "content", content |-> text]

Failure(kind) == [kind |-> kind, content |-> <<>>]

Responses ==
    {Content(<<"o", "k">>), Content(<<" ", "o", "k", " ">>), Content(<<" ">>), Content(<<>>)}
        \cup {Failure(k) : k \in {"no_choices", "timeout", "http_5xx", "http_4xx", "error"}}

openrouter_max_retries == 3

\* what a call of _call_openrouter did: the text returned ("" on failure),
\* the number of POSTs, and the sleeps between them, in seconds
Completed(message, posts, waits) == [message |-> message, posts |-> posts, waits |-> waits]

\* _call_openrouter from attempt `attempt` (0-based) on, after the sleeps
\* `waits`; responses[k] is what the k-th POST comes to.  It never raises.
RECURSIVE call_openrouter_from(_, _, _)

call_openrouter_from_retrying_client_errors(responses, attempt, waits) ==
    IF attempt >= openrouter_max_retries THEN Completed(<<>>, attempt, waits)
    ELSE LET response == responses[attempt + 1] IN
         IF response.kind = "content" THEN Completed(Strip(response.content), attempt + 1, waits)
         ELSE IF response.kind = "no_choices" THEN Completed(<<>>, attempt + 1, waits)
         ELSE IF attempt < openrouter_max_retries - 1
         THEN call_openrouter_from(responses, attempt + 1, Append(waits, 2 ^ attempt))
         ELSE Completed(<<>>, attempt + 1, waits)

call_openrouter_from(responses, attempt, waits) ==
    IF attempt >= openrouter_max_retries THEN Completed(<<>>, attempt, waits)
    ELSE LET response == responses[attempt + 1] IN
         IF response.kind = "content" THEN Completed(Strip(response.content), attempt + 1, waits)
         ELSE IF response.kind = "no_choices" THEN Completed(<<>>, attempt + 1, waits)
         ELSE IF response.kind = "http_4xx" THEN Completed(<<>>, attempt + 1, waits)
         ELSE IF attempt < openrouter_max_retries - 1
         THEN call_openrouter_from(responses, attempt + 1, Append(waits, 2 ^ attempt))
         ELSE Completed(<<>>, attempt + 1, waits)

\* the text _call_openrouter returns, from attempt `attempt` on
call_openrouter(responses, attempt) == call_openrouter_from(responses, attempt, <<>>).message

\* the slot configurations get_slot_config can give: KeyError ("missing"),
\* or a SlotConfig whose fallback_message is configured or left at its
\* default ""
FallbackText == <<"f", "a", "l", "l", "b", "a", "c", "k">>
GenericSentence == <<"g", "e", "n", "e", "r", "i", "c">>

SlotConfigs ==
    {[found |-> FALSE, fallback_message |-> <<>>],
     [found |-> TRUE, fallback_message |-> FallbackText],
     [found |-> TRUE, fallback_message |-> <<>>]}

slot_message_unchecked(slot_config, prompt_ok, responses) ==
    IF slot_config.found /\ prompt_ok THEN call_openrouter(responses, 0)
    ELSE IF slot_config.found THEN slot_config.fallback_message
    ELSE GenericSentence

\* LLMClient.generate_slot_message, the text it returns
\*   prompt_ok  _build_user_prompt returns
slot_message(slot_config, prompt_ok, responses) ==
    IF slot_config.found /\ prompt_ok
    THEN LET message == call_openrouter(responses, 0) IN
         IF message # <<>> THEN message ELSE slot_config.fallback_message
    ELSE IF slot_config.found THEN slot_config.fallback_message
    ELSE GenericSentence

LowRecoveryAdvice == <<"l", "o", "w">>
PauseAdvice == <<"p", "a", "u", "s", "e">>

\* the recovery score: unknown (None, the empty tuple) or a percentage
RecoveryScores == {<<>>, <<30>>, <<50>>, <<80>>}

\* LLMClient.generate_stress_advice
\*   prompt_ok  config.whoop_monitoring.stress_advice_prompt can be read
generate_stress_advice(recovery_score, prompt_ok, responses) ==
    LET \* recovery_score = 0 when it is None, before anything can raise
        score == IF recovery_score = <<>> THEN 0 ELSE recovery_score[1]
    IN  IF prompt_ok THEN Strip(call_openrouter(responses, 0))
        ELSE IF score < 50 THEN LowRecoveryAdvice
        ELSE PauseAdvice

LLMInputs ==
    [responses : [1..openrouter_max_retries -> Responses], prompt_ok : BOOLEAN,
     slot_config : SlotConfigs, recovery_score : RecoveryScores]

InitLLM ==
    /\ rows = <<>>
    /\ today = 0
    /\ clock = 0
    /\ user_id = "None"
    /\ whoop_client = FALSE
    /\ whoop_data = [d \in Days |-> "none"]
    /\ notifications = <<>>
    /\ WhoopIdle
    /\ last = Idle
    /\ \E input \in LLMInputs :
         \/ /\ input.recovery_score = <<>>
            /\ pure = [PureIdle EXCEPT !.fn = "generate_slot_message", !.arg = input]
         \/ /\ input.slot_config = [found |-> FALSE, fallback_message |-> <<>>]
            /\ pure = [PureIdle EXCEPT !.fn = "generate_stress_advice", !.arg = input]

ApplyGenerateSlotMessage ==
    /\ pure.fn = "generate_slot_message" /\ ~pure.done
    /\ pure' = [pure EXCEPT !.done = TRUE,
                  !.out = slot_message(pure.arg.slot_config, pure.arg.prompt_ok, pure.arg.responses)]
    /\ UNCHANGED <<rows, today, clock, user_id, whoop_client, whoop_data, notifications, last, whoop_vars>>

ApplyGenerateStressAdvice ==
    /\ pure.fn = "generate_stress_advice" /\ ~pure.done
    /\ pure' = [pure EXCEPT !.done = TRUE,
                  !.out = generate_stress_advice(pure.arg.recovery_score, pure.arg.prompt_ok,
                                                 pure.arg.responses)]
    /\ UNCHANGED <<rows, today, clock, user_id, whoop_client, whoop_data, notifications, last, whoop_vars>>

NextLLM == ApplyGenerateSlotMessage \/ ApplyGenerateStressAdvice

SpecLLM == InitLLM /\ [][NextLLM]_vars

-----------------------------------------------------------------------------
(* Properties of the generators (SpecLLM).                                 *)

\* the completion call yields a text: some attempt answers with a content
\* that is not blank, and every attempt before it failed in a way that is
\* retried (timeout, server error, other exception)
CompletionSucceeds(responses) ==
    \E k \in 1..openrouter_max_retries :
        /\ responses[k].kind = "content"
        /\ \E j \in DOMAIN responses[k].content : responses[k].content[j] # " "
        /\ \A j \in 1..(k - 1) : responses[j].kind \in {"timeout", "http_5xx", "error"}

\* what C12 lets generate_slot_message return when the completion fails
ExpectedFallback(slot_config) ==
    IF slot_config.found THEN slot_config.fallback_message ELSE GenericSentence

\* C12 as stated: generate_slot_message never returns an empty string; when
\* the completion call returns an empty or malformed result or raises, the
\* result is the slot's configured fallback message verbatim, or the
\* hardcoded generic sentence when the slot configuration lookup fails.
C12_SlotMessageNeverEmpty ==
    (pure.fn = "generate_slot_message" /\ pure.done) =>
        /\ pure.out # <<>>
        /\ (pure.arg.prompt_ok /\ ~CompletionSucceeds(pure.arg.responses))
              => pure.out = ExpectedFallback(pure.arg.slot_config)

\* C12, amended: when the completion call returns an empty or malformed
\* result or raises, the result of generate_slot_message is the slot's
\* configured fallback message verbatim, or the hardcoded generic sentence
\* when the slot configuration lookup fails; the result is empty only when
\* the slot's configured fallback message is itself empty.
C12_SlotMessageFallsBack ==
    (pure.fn = "generate_slot_message" /\ pure.done) =>
        /\ (~pure.arg.prompt_ok \/ ~CompletionSucceeds(pure.arg.responses))
              => pure.out = ExpectedFallback(pure.arg.slot_config)
        /\ pure.out = <<>> =>
              /\ pure.arg.slot_config.found
              /\ pure.arg.slot_config.fallback_message = <<>>

\* the completion answered with a blank text and the configured fallback
\* message was returned
C12_Witness ==
    /\ pure.fn = "generate_slot_message" /\ pure.done
    /\ pure.arg.prompt_ok
    /\ pure.arg.responses[1] = Content(<<" ">>)
    /\ pure.arg.slot_config = [found |-> TRUE, fallback_message |-> FallbackText]
    /\ pure.out = FallbackText

\* C13: whenever the completion call of generate_stress_advice fails
\* (timeouts or HTTP errors through all retries, or an empty result), the
\* advice returned is one of the two hardcoded fallback sentences, the
\* low-recovery one only when recovery is known and below 50; the advice
\* returned is never empty.
C13_StressAdviceFallsBack ==
    (pure.fn = "generate_stress_advice" /\ pure.done) =>
        /\ pure.out # <<>>
        /\ (~pure.arg.prompt_ok \/ ~CompletionSucceeds(pure.arg.responses)) =>
              /\ pure.out \in {LowRecoveryAdvice, PauseAdvice}
              /\ pure.out = LowRecoveryAdvice =>
                    /\ pure.arg.recovery_score # <<>>
                    /\ pure.arg.recovery_score[1] < 50

-----------------------------------------------------------------------------
(* The client at work: the user connects (/whoop_code), the client         *)
(* refreshes and requests, time passes and the servers change their        *)
(* answers.                                                                *)

\* a client call done: its name, its input besides the state, its result
Called(fn, arg, out) == [fn |-> fn, done |-> TRUE, arg |-> arg, min |-> 0, out |-> out]

ExchangeCodeForTokens ==
    /\ LET call == exchange_code_for_tokens(whoop_tokens, whoop_api, now)
       IN  /\ whoop_tokens' = call.tokens
           /\ pure' = Called("exchange_code_for_tokens", None, call)
    /\ UNCHANGED <<rows, today, clock, user_id, whoop_client, whoop_data, notifications, last,
                   whoop_api, now, user_settings, stress, runtime, refreshes>>

RefreshAccessToken ==
    /\ LET call == refresh_access_token(whoop_tokens, whoop_api, now)
       IN  /\ whoop_tokens' = call.tokens
           /\ pure' = Called("refresh_access_token", None, call)
    /\ UNCHANGED <<rows, today, clock, user_id, whoop_client, whoop_data, notifications, last,
                   whoop_api, now, user_settings, stress, runtime, refreshes>>

MakeRequest(status) ==
    /\ LET call == make_request(whoop_tokens, whoop_api, now, status)
       IN  /\ whoop_tokens' = call.tokens
           /\ pure' = Called("_make_request", <<status>>, call)
    /\ UNCHANGED <<rows, today, clock, user_id, whoop_client, whoop_data, notifications, last,
                   whoop_api, now, user_settings, stress, runtime, refreshes>>

\* the servers change how they answer: the token URL
GrantChanges(grant) ==
    /\ whoop_api' = [whoop_api EXCEPT !.grant = grant]
    /\ UNCHANGED <<rows, today, clock, user_id, whoop_client, whoop_data, notifications, last, pure,
                   whoop_tokens, now, user_settings, stress, runtime, refreshes>>

\* the servers change how they answer: the bearer tokens accepted
AcceptsChanges(accepts) ==
    /\ whoop_api' = [whoop_api EXCEPT !.accepts = accepts]
    /\ UNCHANGED <<rows, today, clock, user_id, whoop_client, whoop_data, notifications, last, pure,
                   whoop_tokens, now, user_settings, stress, runtime, refreshes>>

\* time passes
Tick ==
    /\ now < MaxNow
    /\ now' = now + 1
    /\ UNCHANGED <<rows, today, clock, user_id, whoop_client, whoop_data, notifications, last, pure,
                   whoop_tokens, whoop_api, user_settings, stress, runtime, refreshes>>

InitWhoop ==
    /\ rows = <<>>
    /\ today = 0
    /\ clock = 0
    /\ user_id = "u1"
    /\ whoop_client = TRUE
    /\ whoop_data = [d \in Days |-> "none"]
    /\ notifications = <<>>
    /\ last = Idle
    /\ pure = PureIdle
    /\ whoop_tokens = NoTokens
    /\ whoop_api \in ApiStates
    /\ now = 0
    /\ user_settings = [monitoring_enabled |-> TRUE, stress_threshold |-> Num(stress_threshold)]
    /\ stress = StressIdle
    /\ runtime = RuntimeIdle
    /\ refreshes = RefreshIdle

NextWhoop ==
    \/ ExchangeCodeForTokens
    \/ RefreshAccessToken
    \/ \E status \in EndpointStatuses : MakeRequest(status)
    \/ \E grant \in GrantResponses : GrantChanges(grant)
    \/ \E accepts \in BearerSets : AcceptsChanges(accepts)
    \/ Tick

SpecWhoop == InitWhoop /\ [][NextWhoop]_vars

-----------------------------------------------------------------------------
(* Properties of the WHOOP client (SpecWhoop).                             *)

\* C14: an exchange whose token response omits the refresh token stores a
\* refresh token equal to the stored access token; and whenever the stored
\* refresh token equals the stored access token, a refresh_access_token
\* call returns the stored access token, sends no request and leaves the
\* token record as it was.
C14_RefreshWithoutRefreshToken ==
    [][/\ (/\ pure'.fn = "exchange_code_for_tokens"
           /\ pure'.out.raised = "None"
           /\ whoop_api.grant.refresh_token = "None")
          => /\ whoop_tokens' # NoTokens
             /\ whoop_tokens'.refresh_token = whoop_tokens'.access_token
       /\ (/\ pure'.fn = "refresh_access_token"
           /\ whoop_tokens # NoTokens
           /\ whoop_tokens.refresh_token = whoop_tokens.access_token)
          => /\ pure'.out.raised = "None"
             /\ pure'.out.value = whoop_tokens.access_token
             /\ pure'.out.net = <<>>
             /\ whoop_tokens' = whoop_tokens]_<<pure, whoop_tokens>>

\* a refresh in that state, the token about to expire and the token URL
\* ready to grant another one
C14_Witness ==
    /\ pure.fn = "refresh_access_token"
    /\ whoop_tokens # NoTokens
    /\ whoop_tokens.refresh_token = whoop_tokens.access_token
    /\ ExpiresSoon(whoop_tokens, now)
    /\ whoop_api.grant.status = 200
    /\ whoop_api.grant.access_token \notin {"None", whoop_tokens.access_token}

\* C15: when a data request finds the stored access token expired or within
\* the refresh margin and the refresh is answered HTTP 400 or 401, the
\* request ends in the reconnect error, sends no data request with the stale
\* token and posts to the token URL once only.
C15_FailedRefreshEndsRequest ==
    [][(/\ pure'.fn = "_make_request"
        /\ whoop_tokens # NoTokens
        /\ ExpiresSoon(whoop_tokens, now)
        /\ whoop_tokens.refresh_token # whoop_tokens.access_token
        /\ whoop_api.grant.status \in {400, 401})
       => LET net == pure'.out.net
          IN  /\ pure'.out.raised = "reconnect"
              /\ \A i \in DOMAIN net : net[i] # DataRequest(whoop_tokens.access_token)
              /\ Cardinality({i \in DOMAIN net : net[i].to = "token_url"}) = 1]_<<pure, whoop_tokens>>

-----------------------------------------------------------------------------
(* get_all_data applied once, in any state a connected or unconnected      *)
(* client can be in.                                                       *)

\* the token rows of the model: none, or a row written at a time 0..MaxNow
TokenRecords ==
    {NoTokens} \cup
    {save_whoop_tokens(a, r, e, t) :
        a \in AccessTokens, r \in RefreshTokens \cup AccessTokens, e \in ExpiresIn, t \in 0..MaxNow}

\* the rows get_all_data is applied to: none, a row with a refresh token and
\* a row without one (the access token standing in), at any age
DataTokens == {tokens \in TokenRecords : tokens.access_token \in {"None", "at1"}
                                         /\ tokens.refresh_token \in {"None", "at1", "rt1"}}

InitData ==
    /\ rows = <<>>
    /\ today = 0
    /\ clock = 0
    /\ user_id = "u1"
    /\ whoop_client = TRUE
    /\ whoop_data = [d \in Days |-> "none"]
    /\ notifications = <<>>
    /\ last = Idle
    /\ pure = PureIdle
    /\ whoop_tokens \in DataTokens
    /\ whoop_api \in ApiStates
    /\ now = MaxNow
    /\ user_settings = [monitoring_enabled |-> TRUE, stress_threshold |-> Num(stress_threshold)]
    /\ stress = StressIdle
    /\ runtime = RuntimeIdle
    /\ refreshes = RefreshIdle

GetAllData(endpoints) ==
    /\ ~pure.done
    /\ LET call == get_all_data(whoop_tokens, whoop_api, now, endpoints)
       IN  /\ whoop_tokens' = call.tokens
           /\ pure' = Called("get_all_data", endpoints, call)
    /\ UNCHANGED <<rows, today, clock, user_id, whoop_client, whoop_data, notifications, last,
                   whoop_api, now, user_settings, stress, runtime, refreshes>>

NextData == \E endpoints \in Endpoints : GetAllData(endpoints)

SpecData == InitData /\ [][NextData]_vars

-----------------------------------------------------------------------------
(* Properties of get_all_data (SpecData).                                  *)

\* the endpoint's request returned records that carry the value
Delivered(e) == e \notin pure.out.failed /\ pure.arg[e] = "value"

\* the field of the aggregate read from the endpoint is there
Populated(e) ==
    LET metrics == pure.out.value
    IN  CASE e = "cycle"    -> metrics.strain_score # "None"
          [] e = "recovery" -> metrics.recovery_score # "None"
          [] e = "sleep"    -> metrics.sleep_duration # "None"
          [] e = "workout"  -> metrics.workouts_count > 0

\* C18 as stated: get_all_data never raises; every field derived from an
\* endpoint whose request failed is absent (workouts_count 0) and every field
\* whose endpoint delivered its value is populated.
C18_AggregateFollowsEndpoints ==
    (pure.fn = "get_all_data" /\ pure.done)
    => /\ pure.out.raised = "None"
       /\ \A e \in EndpointNames :
            /\ e \in pure.out.failed => ~Populated(e)
            /\ Delivered(e) => Populated(e)

\* C18, amended: the same, except that after a failed cycle request the
\* strain is that of the day's workouts when the workout endpoint delivered
\* workouts with a positive strain, and absent otherwise.
C18_AggregateWithWorkoutStrain ==
    (pure.fn = "get_all_data" /\ pure.done)
    => /\ pure.out.raised = "None"
       /\ \A e \in EndpointNames \ {"cycle"} : e \in pure.out.failed => ~Populated(e)
       /\ "cycle" \in pure.out.failed
            => pure.out.value.strain_score = IF Delivered("workout") THEN "workout" ELSE "None"
       /\ \A e \in EndpointNames : Delivered(e) => Populated(e)

\* the cycle and sleep requests failed, recovery and workouts were delivered
C18_Witness ==
    /\ pure.fn = "get_all_data" /\ pure.done
    /\ pure.out.failed = {"cycle", "sleep"}
    /\ Delivered("recovery") /\ Delivered("workout")
    /\ pure.out.value.strain_score = "workout"
    /\ pure.out.value.sleep_duration = "None"

-----------------------------------------------------------------------------
(* Properties of the jobs with a connected client (SpecJobs).              *)

\* the stored token is inside the refresh margin, the token URL refuses the
\* refresh with 400 or 401 and the data endpoints refuse the stored token
ReconnectRequired ==
    /\ whoop_tokens # NoTokens
    /\ ExpiresSoon(whoop_tokens, now)
    /\ whoop_tokens.refresh_token # whoop_tokens.access_token
    /\ whoop_api.grant.status \in {400, 401}
    /\ whoop_tokens.access_token \notin whoop_api.accepts

\* C16: whenever the nightly job's token check or data fetch fails because
\* the token has expired and reconnection is required, the job sends the
\* bound user the message that tells them to reconnect.
C16_NightlyJobAsksToReconnect ==
    [][(last'.op = "_update_whoop_data_job" /\ user_id # "None" /\ ReconnectRequired)
       => \E i \in DOMAIN last'.sends :
             last'.sends[i].chat_id = user_id /\ last'.sends[i].text = "reconnect"]_vars

\* C17: no run of a scheduled job (slot send, nightly refresh, stress check,
\* weekly report) lets an exception out, whatever fails.
C17_JobsNeverRaise ==
    last.op \in JobOps => ~last.raised

\* the nightly job has run where reconnection is required, and saved nothing
C17_Witness ==
    /\ last.op = "_update_whoop_data_job"
    /\ ReconnectRequired
    /\ whoop_data[today] = "none"

-----------------------------------------------------------------------------
(* scheduler.py: _check_stress_job await by await, next to the              *)
(* /whoop_monitoring command (bot.py) and the passing of time.  The job     *)
(* runs with max_instances=1: a run starts only when none is in flight.     *)
(* The clock counts hours.                                                  *)

MaxHours == 3

MaxAlerts == 2

notification_cooldown_hours == 2

\* Storage.get_last_notification: a notification of the type for the user
\* inside the cooldown window
get_last_notification(user, type, hours) ==
    \E i \in DOMAIN notifications :
        /\ notifications[i].user_id = user
        /\ notifications[i].type = type
        /\ clock - notifications[i].sent_at < hours

StepOf(op) == [Idle EXCEPT !.op = op]

\* decimal numerals
DecimalDigits == <<"0", "1", "2", "3", "4", "5", "6", "7", "8", "9">>

DigitValue(c) == (CHOOSE i \in DOMAIN DecimalDigits : DecimalDigits[i] = c) - 1

IsDigits(s) ==
    s # <<>> /\ \A i \in DOMAIN s : \E d \in DOMAIN DecimalDigits : DecimalDigits[d] = s[i]

RECURSIVE Decimal(_)
Decimal(s) ==
    IF s = <<>> THEN 0
    ELSE 10 * Decimal(SubSeq(s, 1, Len(s) - 1)) + DigitValue(s[Len(s)])

\* datetime.strptime(text, "%H:%M").time(): hours 0..23 and minutes 0..59 of
\* one or two digits each around a colon, else a ValueError (ok is FALSE).
\* A time of day is <<hour, minute, second, microsecond>>.
strptime_HM(text) ==
    LET parts == Split(text, ":")
        fits == /\ Len(parts) = 2
                /\ \A i \in 1..2 : IsDigits(parts[i]) /\ Len(parts[i]) <= 2
                /\ Decimal(parts[1]) <= 23
                /\ Decimal(parts[2]) <= 59
    IN  IF fits THEN [ok |-> TRUE, time |-> <<Decimal(parts[1]), Decimal(parts[2]), 0, 0>>]
        ELSE [ok |-> FALSE, time |-> <<0, 0, 0, 0>>]

\* the order of datetime.time values
RECURSIVE time_le(_, _)
time_le(a, b) ==
    IF a = <<>> THEN TRUE
    ELSE IF Head(a) # Head(b) THEN Head(a) < Head(b)
    ELSE time_le(Tail(a), Tail(b))

\* WhoopMonitoringConfig.start_time and end_time, "08:00" and "00:00"
start_time == <<"0", "8", ":", "0", "0">>

end_time == <<"0", "0", ":", "0", "0">>

within_active_hours_to_midnight_sharp(start_text, end_text, current_time) ==
    LET start == strptime_HM(start_text)
        end == strptime_HM(end_text)
    IN  /\ start.ok /\ end.ok
        /\ time_le(start.time, current_time)
        /\ time_le(current_time, end.time)

\* the active-hours gate of _check_stress_job: an end of 00:00 stands for
\* 23:59:59; a start or end that does not parse raises, which ends the run
within_active_hours(start_text, end_text, current_time) ==
    LET start == strptime_HM(start_text)
        end == strptime_HM(end_text)
        until == IF end.time = <<0, 0, 0, 0>> THEN <<23, 59, 59, 0>> ELSE end.time
    IN  /\ start.ok /\ end.ok
        /\ time_le(start.time, current_time)
        /\ time_le(current_time, until)

\* the times of day a run of the check starts at
RunTimes == {<<7, 59, 59, 999999>>, <<8, 0, 0, 0>>}

\* the job starts: the checks before the first await
StressStart(current_time) ==
    /\ whoop_client
    /\ stress.pc = "idle"
    /\ LET checks == /\ user_id # "None"
                     /\ user_settings.monitoring_enabled
                     /\ within_active_hours(start_time, end_time, current_time)
                     /\ ~get_last_notification(user_id, "high_strain", notification_cooldown_hours)
       IN  stress' = IF checks
                     THEN [stress EXCEPT !.pc = "token", !.recovery = FALSE, !.strain = Null,
                                         !.threshold = user_settings.stress_threshold]
                     ELSE stress
    /\ last' = StepOf("_check_stress_job")
    /\ UNCHANGED <<rows, today, clock, user_id, whoop_client, whoop_data, notifications, pure,
                   whoop_tokens, whoop_api, now, user_settings, runtime, refreshes>>

\* await whoop_client._get_access_token returns or raises
StressToken(token_ok) ==
    /\ stress.pc = "token"
    /\ stress' = [stress EXCEPT !.pc = IF token_ok THEN "cycle" ELSE "idle"]
    /\ last' = [StepOf("_check_stress_job") EXCEPT !.whoop = 1]
    /\ UNCHANGED <<rows, today, clock, user_id, whoop_client, whoop_data, notifications, pure,
                   whoop_tokens, whoop_api, now, user_settings, runtime, refreshes>>

\* Python's < on floats: false when either side is nan
lt(a, b) ==
    /\ a.is # "nan" /\ b.is # "nan"
    /\ \/ a.is = "number" /\ b.is = "number" /\ a.v < b.v
       \/ a.is = "number" /\ b = Inf(1)
       \/ a = Inf(-1) /\ b.is = "number"
       \/ a = Inf(-1) /\ b = Inf(1)

\* what get_cycle gives the check: it raises, no record, a record without
\* score.strain, a score.strain that is a number (its .get raises), or a
\* score.strain whose "average" is absent or the strain
Strains == {0, 119, 120, 125, 210}

CycleAnswers ==
    {[is |-> k, v |-> 0] : k \in {"raise", "none", "no_strain", "float_strain", "null"}}
        \cup {Num(v) : v \in Strains}

strain_passes_always(cycle, threshold) ==
    cycle.is = "number"

\* the check goes on to the alert: a strain is there and `strain_score <
\* threshold` is false; the comparison with a threshold of None raises
strain_passes(cycle, threshold) ==
    /\ cycle.is = "number"
    /\ threshold.is # "null"
    /\ ~lt(cycle, threshold)

\* await whoop_client.get_cycle returns
StressCycle(cycle) ==
    /\ stress.pc = "cycle"
    /\ stress' = IF strain_passes(cycle, stress.threshold)
                 THEN [stress EXCEPT !.pc = "recovery", !.strain = cycle]
                 ELSE [stress EXCEPT !.pc = "idle"]
    /\ last' = [StepOf("_check_stress_job") EXCEPT !.whoop = 1]
    /\ UNCHANGED <<rows, today, clock, user_id, whoop_client, whoop_data, notifications, pure,
                   whoop_tokens, whoop_api, now, user_settings, runtime, refreshes>>

\* await whoop_client.get_recovery returns a score or not
StressRecovery(recovery_ok) ==
    /\ stress.pc = "recovery"
    /\ stress' = [stress EXCEPT !.pc = "advice", !.recovery = recovery_ok]
    /\ last' = [StepOf("_check_stress_job") EXCEPT !.whoop = 1]
    /\ UNCHANGED <<rows, today, clock, user_id, whoop_client, whoop_data, notifications, pure,
                   whoop_tokens, whoop_api, now, user_settings, runtime, refreshes>>

\* await llm_client.generate_stress_advice returns (it raises nothing)
StressAdvice ==
    /\ stress.pc = "advice"
    /\ stress' = [stress EXCEPT !.pc = "send"]
    /\ last' = [StepOf("_check_stress_job") EXCEPT !.llm = 1]
    /\ UNCHANGED <<rows, today, clock, user_id, whoop_client, whoop_data, notifications, pure,
                   whoop_tokens, whoop_api, now, user_settings, runtime, refreshes>>

\* await bot.send_message returns or raises; after a delivery the
\* notification is saved, and a failure to save is logged
StressSend(send_ok, save_ok) ==
    /\ stress.pc = "send"
    /\ LET delivered == send_ok
           saved == delivered /\ save_ok
       IN  /\ delivered => stress.sent < MaxAlerts
           /\ saved => Len(notifications) < MaxNotifications
           /\ stress' = [stress EXCEPT
                  !.pc = "idle",
                  !.strain = Null,
                  !.sent = IF delivered THEN @ + 1 ELSE @,
                  !.alerted_at = IF delivered THEN clock ELSE @]
           /\ notifications' =
                IF saved
                THEN Append(notifications, [user_id |-> user_id, type |-> "high_strain", sent_at |-> clock])
                ELSE notifications
           /\ last' = [StepOf("_check_stress_job") EXCEPT
                !.sends = <<Send(user_id, IF stress.recovery THEN "high_strain_recovery" ELSE "high_strain",
                                 None, send_ok)>>]
    /\ UNCHANGED <<rows, today, clock, user_id, whoop_client, whoop_data, pure,
                   whoop_tokens, whoop_api, now, user_settings, runtime, refreshes>>

\* /whoop_monitoring from a user: no argument ("status"), "on", "off" or
\* anything else ("other"); Storage.update_user_settings may fail
HandleWhoopMonitoring(user, action, write_ok, answer_ok) ==
    /\ LET written == whoop_client /\ action \in {"on", "off"} /\ write_ok
           text == IF ~whoop_client THEN "not_connected"
                   ELSE IF action \in {"on", "off"} /\ ~write_ok THEN "error"
                   ELSE action
       IN  /\ user_settings' =
                IF written /\ user = user_id
                THEN [user_settings EXCEPT !.monitoring_enabled = (action = "on")]
                ELSE user_settings
           /\ last' = [StepOf("_handle_whoop_monitoring") EXCEPT
                !.user = user,
                !.replies = <<Reply(text, answer_ok)>>]
    /\ UNCHANGED <<rows, today, clock, user_id, whoop_client, whoop_data, notifications, pure,
                   whoop_tokens, whoop_api, now, stress, runtime, refreshes>>

\* an hour passes
HourPasses ==
    /\ clock < MaxHours
    /\ clock' = clock + 1
    /\ UNCHANGED <<rows, today, user_id, whoop_client, whoop_data, notifications, last, pure, whoop_vars>>

\* float(text) for the texts of the model: an optional sign, then nan, inf,
\* infinity, digits, or digits with one decimal; anything else is a
\* ValueError
ValueError == [is |-> "ValueError", v |-> 0]

float(text) ==
    LET signed == text # <<>> /\ text[1] \in {"+", "-"}
        sign == IF text # <<>> /\ text[1] = "-" THEN -1 ELSE 1
        mag == IF signed THEN Tail(text) ELSE text
        whole == SubSeq(mag, 1, Len(mag) - 2)
    IN  IF Lower(mag) = <<"n", "a", "n">> THEN NaN
        ELSE IF Lower(mag) \in {<<"i", "n", "f">>, <<"i", "n", "f", "i", "n", "i", "t", "y">>}
        THEN Inf(sign)
        ELSE IF IsDigits(mag) THEN Num(sign * 10 * Decimal(mag))
        ELSE IF /\ Len(mag) >= 3 /\ mag[Len(mag) - 1] = "."
                /\ IsDigits(whole) /\ IsDigits(<<mag[Len(mag)]>>)
        THEN Num(sign * (10 * Decimal(whole) + DigitValue(mag[Len(mag)])))
        ELSE ValueError

\* the arguments of /whoop_threshold the model sends
ThresholdArgs ==
    {<<"a", "b", "c">>, <<"-", "0", ".", "1">>, <<"0">>, <<"1", "2", ".", "5">>,
     <<"2", "1">>, <<"2", "1", ".", "1">>, <<"N", "a", "N">>, <<"i", "n", "f">>}

Floats == [a \in ThresholdArgs |-> float(a)]

\* the range check of _handle_whoop_threshold
threshold_max == 210

out_of_range(threshold_value) ==
    lt(threshold_value, Num(0)) \/ lt(Num(threshold_max), threshold_value)

\* what the REAL column of the sqlite3 table keeps of a float: nan is bound
\* as NULL
stored_float(value) == IF value.is = "nan" THEN Null ELSE value

\* /whoop_threshold from a user, with an argument or without one (None);
\* Storage.get_user_settings and update_user_settings may fail
HandleWhoopThreshold(user, arg, storage_ok, answer_ok) ==
    /\ LET threshold_value == IF arg = None THEN ValueError ELSE Floats[arg]
           current == IF user = user_id THEN user_settings.stress_threshold ELSE Num(stress_threshold)
           valid == /\ whoop_client /\ arg # None
                    /\ threshold_value # ValueError /\ ~out_of_range(threshold_value)
           text == IF ~whoop_client THEN "not_connected"
                   ELSE IF arg = None
                   THEN IF storage_ok /\ current.is # "null" THEN "current" ELSE "error"
                   ELSE IF threshold_value = ValueError THEN "not_a_number"
                   ELSE IF out_of_range(threshold_value) THEN "out_of_range"
                   ELSE IF storage_ok THEN "set" ELSE "error"
       IN  /\ user_settings' =
                IF valid /\ storage_ok /\ user = user_id
                THEN [user_settings EXCEPT !.stress_threshold = stored_float(threshold_value)]
                ELSE user_settings
           /\ last' = [StepOf("_handle_whoop_threshold") EXCEPT
                !.user = user,
                !.replies = <<Reply(text, answer_ok)>>]
    /\ UNCHANGED <<rows, today, clock, user_id, whoop_client, whoop_data, notifications, pure,
                   whoop_tokens, whoop_api, now, stress, runtime, refreshes>>

InitStress ==
    /\ rows = <<>>
    /\ today = 0
    /\ clock = 0
    /\ user_id = "u1"
    /\ whoop_client = TRUE
    /\ whoop_data = [d \in Days |-> "none"]
    /\ notifications = <<>>
    /\ last = Idle
    /\ pure = PureIdle
    /\ WhoopIdle

NextStress ==
    \/ \E current_time \in RunTimes : StressStart(current_time)
    \/ \E token_ok \in BOOLEAN : StressToken(token_ok)
    \/ \E cycle \in CycleAnswers : StressCycle(cycle)
    \/ \E recovery_ok \in BOOLEAN : StressRecovery(recovery_ok)
    \/ StressAdvice
    \/ \E send_ok, save_ok \in BOOLEAN : StressSend(send_ok, save_ok)
    \/ \E user \in Users, action \in {"status", "on", "off", "other"}, write_ok, answer_ok \in BOOLEAN :
            HandleWhoopMonitoring(user, action, write_ok, answer_ok)
    \/ HourPasses

SpecStress == InitStress /\ [][NextStress]_vars

\* the active-hours gate on its own: configured hours and a time of day
ConfiguredTimes ==
    {start_time, end_time, <<"8", ":", "0", "0">>, <<"1", "2", ":", "3", "0">>,
     <<"2", "3", ":", "5", "9">>, <<"2", "4", ":", "0", "0">>, <<"0", "8", "0", "0">>}

TimesOfDay ==
    {<<h, m, sec, us>> : h \in {0, 7, 8, 12, 23}, m \in {0, 30, 59}, sec \in {0, 59}, us \in {0, 1}}

InitHours ==
    /\ rows = <<>>
    /\ today = 0
    /\ clock = 0
    /\ user_id = "None"
    /\ whoop_client = FALSE
    /\ whoop_data = [d \in Days |-> "none"]
    /\ notifications = <<>>
    /\ WhoopIdle
    /\ last = Idle
    /\ \E start \in ConfiguredTimes, end \in ConfiguredTimes, current_time \in TimesOfDay :
            pure = [PureIdle EXCEPT !.fn = "active_hours",
                                    !.arg = [start |-> start, end |-> end, current_time |-> current_time]]

ApplyActiveHours ==
    /\ pure.fn = "active_hours" /\ ~pure.done
    /\ pure' = [pure EXCEPT
            !.done = TRUE,
            !.out = within_active_hours(pure.arg.start, pure.arg.end, pure.arg.current_time)]
    /\ UNCHANGED <<rows, today, clock, user_id, whoop_client, whoop_data, notifications, last, whoop_vars>>

SpecHours == InitHours /\ [][ApplyActiveHours]_vars

\* the stress check next to /whoop_threshold
NextThreshold ==
    \/ \E current_time \in RunTimes : StressStart(current_time)
    \/ \E token_ok \in BOOLEAN : StressToken(token_ok)
    \/ \E cycle \in CycleAnswers : StressCycle(cycle)
    \/ \E recovery_ok \in BOOLEAN : StressRecovery(recovery_ok)
    \/ StressAdvice
    \/ \E send_ok, save_ok \in BOOLEAN : StressSend(send_ok, save_ok)
    \/ \E user \in Users, arg \in {None} \cup ThresholdArgs, storage_ok, answer_ok \in BOOLEAN :
            HandleWhoopThreshold(user, arg, storage_ok, answer_ok)

SpecThreshold == InitStress /\ [][NextThreshold]_vars

-----------------------------------------------------------------------------
(* bot.py: /health.                                                        *)

\* Storage.get_slot_statistics with its handler of sqlite3.Error: a failed
\* read is logged and statistics of zeros are returned
read_slot_statistics(table, slot_id, days, read_ok) ==
    IF read_ok THEN [raised |-> FALSE, value |-> get_slot_statistics(table, slot_id, days)]
    ELSE [raised |-> FALSE, value |-> [total |-> 0, successful |-> 0, percentage |-> 0]]

\* LLMClient.health_check: (True, "") on HTTP 200, else (False, message);
\* the message may name the provider's data policy
HealthChecks == {"ok", "data_policy", "http_error", "unreachable"}

\* /health: get_me returns or raises, health_check answers `llm`, the
\* statistics read succeeds or meets an sqlite3.Error.  The answer gives one
\* line per check; last.arg keeps what the dependencies did next to the lines.
HandleHealth(telegram_ok, llm, read_ok, answer_ok, error_answer_ok) ==
    /\ LET stats == read_slot_statistics(rows, S1, 1, read_ok)
           lines == << IF telegram_ok THEN "ok" ELSE "failed",
                       IF llm = "ok" THEN "ok"
                       ELSE IF llm = "data_policy" THEN "privacy_warning" ELSE "warning",
                       IF stats.raised THEN "failed" ELSE "ok" >>
       IN  last' = [StepOf("_handle_health") EXCEPT
                !.arg = <<[telegram_ok |-> telegram_ok, llm |-> llm, read_ok |-> read_ok], lines>>,
                !.llm = 1,
                !.replies = IF answer_ok THEN <<Reply("health", TRUE)>>
                            ELSE <<Reply("health", FALSE), Reply("error", error_answer_ok)>>,
                !.raised = ~answer_ok /\ ~error_answer_ok]
    /\ UNCHANGED <<rows, today, clock, user_id, whoop_client, whoop_data, notifications, pure, whoop_vars>>

InitHealth ==
    /\ rows \in {<<>>} \cup ExistingTables
    /\ today \in Days
    /\ clock = 0
    /\ user_id = "None"
    /\ whoop_client = FALSE
    /\ whoop_data = [d \in Days |-> "none"]
    /\ notifications = <<>>
    /\ WhoopIdle
    /\ last = Idle
    /\ pure = PureIdle

NextHealth ==
    \E telegram_ok, read_ok, answer_ok, error_answer_ok \in BOOLEAN, llm \in HealthChecks :
        HandleHealth(telegram_ok, llm, read_ok, answer_ok, error_answer_ok)

SpecHealth == InitHealth /\ [][NextHealth]_vars

-----------------------------------------------------------------------------
(* bot.py: /whoop_alerts over a history of stress alerts.                  *)

MaxHistory == 22

\* Storage.get_notification_history: the user's latest `limit` notifications,
\* newest first
get_notification_history(table, user, limit) ==
    LET mine == SelectSeq(table, LAMBDA r : r.user_id = user)
        newest_first == [i \in 1..Len(mine) |-> mine[Len(mine) + 1 - i]]
    IN  SubSeq(newest_first, 1, IF Len(mine) < limit THEN Len(mine) ELSE limit)

\* the history _handle_whoop_alerts asks for, and the alerts it lists
alerts_history_limit == 20

alerts_shown == 10

\* /whoop_alerts from a user.  The answer lists the times of the alerts
\* shown and gives the count of further alerts (0: the line is left out).
HandleWhoopAlerts(user, storage_ok, answer_ok, error_answer_ok) ==
    /\ LET history == get_notification_history(notifications, user, alerts_history_limit)
           shown == SubSeq(history, 1, IF Len(history) < alerts_shown THEN Len(history) ELSE alerts_shown)
           more == IF Len(history) > alerts_shown THEN Len(history) - alerts_shown ELSE 0
           run == [StepOf("_handle_whoop_alerts") EXCEPT !.user = user]
       IN  last' =
             IF ~whoop_client THEN [run EXCEPT !.replies = <<Reply("not_connected", answer_ok)>>]
             ELSE IF ~storage_ok
             THEN [run EXCEPT !.replies = <<Reply("error", error_answer_ok)>>]
             ELSE IF history = <<>>
             THEN [run EXCEPT !.replies =
                      IF answer_ok THEN <<Reply("empty", TRUE)>>
                      ELSE <<Reply("empty", FALSE), Reply("error", error_answer_ok)>>]
             ELSE [run EXCEPT
                      !.arg = <<[i \in DOMAIN shown |-> shown[i].sent_at], more>>,
                      !.replies =
                          IF answer_ok THEN <<Reply("alerts", TRUE)>>
                          ELSE <<Reply("alerts", FALSE), Reply("error", error_answer_ok)>>]
    /\ UNCHANGED <<rows, today, clock, user_id, whoop_client, whoop_data, notifications, pure, whoop_vars>>

\* a history of n alerts sent to the bound user, one an hour
History(n) == [i \in 1..n |-> [user_id |-> "u1", type |-> "high_strain", sent_at |-> i]]

InitAlerts ==
    /\ rows = <<>>
    /\ today = 0
    /\ clock = MaxHistory
    /\ user_id = "u1"
    /\ whoop_client \in BOOLEAN
    /\ whoop_data = [d \in Days |-> "none"]
    /\ \E n \in 0..MaxHistory : notifications = History(n)
    /\ last = Idle
    /\ pure = PureIdle
    /\ WhoopIdle

NextAlerts ==
    \E user \in Users, storage_ok, answer_ok, error_answer_ok \in BOOLEAN :
        HandleWhoopAlerts(user, storage_ok, answer_ok, error_answer_ok)

SpecAlerts == InitAlerts /\ [][NextAlerts]_vars

-----------------------------------------------------------------------------
(* bot.py: /whoop_connect, /whoop_code and /whoop_now; every command and   *)
(* the button callback side by side.  The tokens table of the model holds  *)
(* the row of the scheduler's user; any other user has none.               *)

tokens_of(user) == IF user = user_id THEN whoop_tokens ELSE NoTokens

\* the answer of a handler whose body is inside try/except: the reply of the
\* body, then the reply of the except branch when the body's answer raises
Answered(text, answer_ok, error_answer_ok) ==
    IF answer_ok THEN <<Reply(text, TRUE)>>
    ELSE <<Reply(text, FALSE), Reply("error", error_answer_ok)>>

\* /whoop_connect: the authorization URL, built without any request
HandleWhoopConnect(user, answer_ok, error_answer_ok) ==
    /\ last' = IF ~whoop_client
               THEN [StepOf("_handle_whoop_connect") EXCEPT
                        !.user = user,
                        !.replies = <<Reply("not_configured", answer_ok)>>,
                        !.raised = ~answer_ok]
               ELSE [StepOf("_handle_whoop_connect") EXCEPT
                        !.user = user,
                        !.replies = Answered("authorization_url", answer_ok, error_answer_ok),
                        !.raised = ~answer_ok /\ ~error_answer_ok]
    /\ UNCHANGED <<rows, today, clock, user_id, whoop_client, whoop_data, notifications, pure, whoop_vars>>

HandleWhoopCode_silent_on_failure(user, code, answer_ok, error_answer_ok) ==
    /\ LET call == exchange_code_for_tokens(tokens_of(user), whoop_api, now)
           asked == whoop_client /\ code = "code"
           run == [StepOf("_handle_whoop_code") EXCEPT !.user = user]
       IN  /\ whoop_tokens' = IF asked /\ user = user_id THEN call.tokens ELSE whoop_tokens
           /\ last' =
                 IF ~whoop_client
                 THEN [run EXCEPT !.replies = <<Reply("not_configured", answer_ok)>>,
                                  !.raised = ~answer_ok]
                 ELSE IF code = "missing"
                 THEN [run EXCEPT !.replies = Answered("usage", answer_ok, error_answer_ok),
                                  !.raised = ~answer_ok /\ ~error_answer_ok]
                 ELSE IF code = "separator" THEN run
                 ELSE IF call.raised # "None"
                 THEN [run EXCEPT !.whoop = Len(call.net)]
                 ELSE [run EXCEPT !.whoop = Len(call.net),
                                  !.replies = Answered("connected", answer_ok, error_answer_ok),
                                  !.raised = ~answer_ok /\ ~error_answer_ok]
    /\ UNCHANGED <<rows, today, clock, user_id, whoop_client, whoop_data, notifications, pure,
                   whoop_api, now, user_settings, stress, runtime, refreshes>>

\* /whoop_code: no argument ("missing"), an argument that starts with & or ?
\* ("separator": nothing is left of it and taking its first word raises), or
\* a code, which is exchanged for tokens
HandleWhoopCode(user, code, answer_ok, error_answer_ok) ==
    /\ LET call == exchange_code_for_tokens(tokens_of(user), whoop_api, now)
           asked == whoop_client /\ code = "code"
           run == [StepOf("_handle_whoop_code") EXCEPT !.user = user]
       IN  /\ whoop_tokens' = IF asked /\ user = user_id THEN call.tokens ELSE whoop_tokens
           /\ last' =
                 IF ~whoop_client
                 THEN [run EXCEPT !.replies = <<Reply("not_configured", answer_ok)>>,
                                  !.raised = ~answer_ok]
                 ELSE IF code = "missing"
                 THEN [run EXCEPT !.replies = Answered("usage", answer_ok, error_answer_ok),
                                  !.raised = ~answer_ok /\ ~error_answer_ok]
                 ELSE IF code = "separator"
                 THEN [run EXCEPT !.replies = <<Reply("error", error_answer_ok)>>,
                                  !.raised = ~error_answer_ok]
                 ELSE IF call.raised # "None"
                 THEN [run EXCEPT !.whoop = Len(call.net),
                                  !.replies = <<Reply("exchange_failed", error_answer_ok)>>,
                                  !.raised = ~error_answer_ok]
                 ELSE [run EXCEPT !.whoop = Len(call.net),
                                  !.replies = Answered("connected", answer_ok, error_answer_ok),
                                  !.raised = ~answer_ok /\ ~error_answer_ok]
    /\ UNCHANGED <<rows, today, clock, user_id, whoop_client, whoop_data, notifications, pure,
                   whoop_api, now, user_settings, stress, runtime, refreshes>>

\* the requests of /whoop_now: get_all_data, then get_recovery again when the
\* aggregate has a recovery score without HRV or RHR (`details`), and
\* get_sleep for yesterday when it has no sleep duration
whoop_now(tokens, api, t, endpoints, details) ==
    Only({Only({Only({[tokens |-> sleep.tokens,
                       net |-> (data.net \o recovery.net) \o sleep.net] :
            sleep \in {IF data.value.sleep_duration = "None"
                       THEN get_records(recovery.tokens, api, t, endpoints["sleep"])
                       ELSE [tokens |-> recovery.tokens, net |-> <<>>, raised |-> "None",
                             records |-> "None"]}}) :
            recovery \in {IF data.value.recovery_score # "None" /\ details
                          THEN get_records(data.tokens, api, t, endpoints["recovery"])
                          ELSE [tokens |-> data.tokens, net |-> <<>>, raised |-> "None",
                                records |-> "None"]}}) :
            data \in {get_all_data(tokens, api, t, endpoints)}})

\* /whoop_now
HandleWhoopNow(user, endpoints, details, answer_ok, error_answer_ok) ==
    /\ LET call == whoop_now(tokens_of(user), whoop_api, now, endpoints, details)
           run == [StepOf("_handle_whoop_now") EXCEPT !.user = user]
       IN  /\ whoop_tokens' = IF whoop_client /\ user = user_id THEN call.tokens ELSE whoop_tokens
           /\ last' =
                 IF ~whoop_client
                 THEN [run EXCEPT !.replies = <<Reply("not_connected", answer_ok)>>,
                                  !.raised = ~answer_ok]
                 ELSE [run EXCEPT !.whoop = Len(Requests(call.net)),
                                  !.replies = Answered("now", answer_ok, error_answer_ok),
                                  !.raised = ~answer_ok /\ ~error_answer_ok]
    /\ UNCHANGED <<rows, today, clock, user_id, whoop_client, whoop_data, notifications, pure,
                   whoop_api, now, user_settings, stress, runtime, refreshes>>

\* the bot over a database and a WHOOP connection as a run finds them
BotApis ==
    {ApiDown,
     [grant |-> [status |-> 200, access_token |-> "at1", refresh_token |-> "rt1", expires_in |-> 3],
      accepts |-> {"at1"}]}

InitBot ==
    /\ rows = <<>>
    /\ today = 0
    /\ clock = 0
    /\ user_id \in {"None", "u1"}
    /\ whoop_client \in BOOLEAN
    /\ whoop_data = [d \in Days |-> "none"]
    /\ notifications \in {History(0), History(1)}
    /\ last = Idle
    /\ pure = PureIdle
    /\ whoop_tokens = NoTokens
    /\ whoop_api \in BotApis
    /\ now = 0
    /\ user_settings = [monitoring_enabled |-> TRUE, stress_threshold |-> Num(stress_threshold)]
    /\ stress = StressIdle
    /\ runtime = RuntimeIdle
    /\ refreshes = RefreshIdle

\* one payload of each kind: well-formed, and routed but malformed
BotPayloads == {FormatCallback(S1, tok_success), <<"s", "l", "o", "t", "_", "S", "1">>}

NextBot ==
    \/ \E whoop_auth, answer_ok \in BOOLEAN : HandleStart("u1", whoop_auth, answer_ok)
    \/ \E answer_ok, error_answer_ok \in BOOLEAN : HandleStats(answer_ok, error_answer_ok)
    \/ \E telegram_ok, read_ok, answer_ok, error_answer_ok \in BOOLEAN, llm \in HealthChecks :
            HandleHealth(telegram_ok, llm, read_ok, answer_ok, error_answer_ok)
    \/ \E data \in BotPayloads, write_ok, answer_ok, error_answer_ok \in BOOLEAN :
            HandleButtonCallback(data, write_ok, answer_ok, error_answer_ok)
    \/ \E answer_ok, error_answer_ok \in BOOLEAN : HandleWhoopConnect("u1", answer_ok, error_answer_ok)
    \/ \E code \in {"missing", "separator", "code"}, answer_ok, error_answer_ok \in BOOLEAN :
            HandleWhoopCode("u1", code, answer_ok, error_answer_ok)
    \/ \E endpoints \in JobEndpoints, details, answer_ok, error_answer_ok \in BOOLEAN :
            HandleWhoopNow("u1", endpoints, details, answer_ok, error_answer_ok)
    \/ \E action \in {"status", "on", "off", "other"}, write_ok, answer_ok \in BOOLEAN :
            HandleWhoopMonitoring("u1", action, write_ok, answer_ok)
    \/ \E arg \in {None, <<"1", "2", ".", "5">>, <<"a", "b", "c">>, <<"i", "n", "f">>},
          storage_ok, answer_ok \in BOOLEAN :
            HandleWhoopThreshold("u1", arg, storage_ok, answer_ok)
    \/ \E storage_ok, answer_ok, error_answer_ok \in BOOLEAN :
            HandleWhoopAlerts("u1", storage_ok, answer_ok, error_answer_ok)

SpecBot == InitBot /\ [][NextBot]_vars

\* The wearable commands and the jobs that use the wearable, with WHOOP
\* configured or not.  The database may hold the tokens of an earlier run.
InitWearable ==
    /\ rows = <<>>
    /\ today = 0
    /\ clock = 0
    /\ user_id = "u1"
    /\ whoop_client \in BOOLEAN
    /\ whoop_data = [d \in Days |-> "none"]
    /\ notifications = <<>>
    /\ last = Idle
    /\ pure = PureIdle
    /\ whoop_tokens \in {NoTokens, save_whoop_tokens("at1", "rt1", 3, 0)}
    /\ whoop_api \in BotApis
    /\ now = 0
    /\ user_settings = [monitoring_enabled |-> TRUE, stress_threshold |-> Num(stress_threshold)]
    /\ stress = StressIdle
    /\ runtime = RuntimeIdle
    /\ refreshes = RefreshIdle

\* how the calls of the evening slot turn out: all well, or the wearable API
\* without metrics or failing
WearableEnvs == {NoEnv, [NoEnv EXCEPT !.api = "empty"], [NoEnv EXCEPT !.api = "raise"]}

NextWearable ==
    \/ \E answer_ok, error_answer_ok \in BOOLEAN : HandleWhoopConnect("u1", answer_ok, error_answer_ok)
    \/ \E code \in {"missing", "separator", "code"}, answer_ok, error_answer_ok \in BOOLEAN :
            HandleWhoopCode("u1", code, answer_ok, error_answer_ok)
    \/ \E endpoints \in JobEndpoints, details, answer_ok, error_answer_ok \in BOOLEAN :
            HandleWhoopNow("u1", endpoints, details, answer_ok, error_answer_ok)
    \/ \E answer_ok \in BOOLEAN : HandleWhoopMonitoring("u1", "status", TRUE, answer_ok)
    \/ \E answer_ok \in BOOLEAN : HandleWhoopThreshold("u1", None, TRUE, answer_ok)
    \/ \E storage_ok, answer_ok, error_answer_ok \in BOOLEAN :
            HandleWhoopAlerts("u1", storage_ok, answer_ok, error_answer_ok)
    \/ \E env \in WearableEnvs : SendSlotJob(S6, env)
    \/ \E endpoints \in JobEndpoints, save_ok, notify_ok \in BOOLEAN :
            UpdateWhoopDataJob(endpoints, save_ok, notify_ok)
    \/ \E current_time \in RunTimes : StressStart(current_time)
    \/ \E token_ok \in BOOLEAN : StressToken(token_ok)
    \/ \E cycle \in {Null, Num(stress_threshold)} : StressCycle(cycle)
    \/ \E recovery_ok \in BOOLEAN : StressRecovery(recovery_ok)
    \/ StressAdvice
    \/ \E send_ok, save_ok \in BOOLEAN : StressSend(send_ok, save_ok)

SpecWearable == InitWearable /\ [][NextWearable]_vars

-----------------------------------------------------------------------------
(* Properties of the stress monitoring (SpecStress).                       *)

\* C19: two high_strain alerts are never delivered less than the cooldown
\* apart.
C19_AlertsCooldownApart ==
    [][(stress'.sent > stress.sent /\ stress.sent > 0)
       => clock - stress.alerted_at >= notification_cooldown_hours]_vars

\* C20: no stress alert is sent while the user's monitoring_enabled setting
\* is false, a /whoop_monitoring off handled while the check is suspended
\* included.
C20_NoAlertWhileDisabled ==
    [][(stress.pc = "send" /\ last'.op = "_check_stress_job" /\ last'.sends # <<>>)
       => user_settings.monitoring_enabled]_vars

\* C21: every stress alert delivered to the user has a high_strain
\* notification written for it in the same run of the job, and no
\* notification is written unless the alert was sent first.
C21_AlertAndRecordTogether ==
    [][last'.op = "_check_stress_job"
       => ((stress'.sent > stress.sent) <=> (Len(notifications') > Len(notifications)))]_vars

-----------------------------------------------------------------------------
(* Properties of the stress threshold (SpecThreshold).                     *)

\* the run's strain is a number at or over the threshold the run has read
AtOrOverThreshold(run) ==
    /\ run.strain.is = "number"
    /\ run.threshold.is = "number"
    /\ run.strain.v >= run.threshold.v

\* C22: a stress alert is sent only when the strain fetched from today's
\* cycle record is at or over the user's threshold as the run has read it;
\* a strain below it, or an absent cycle record or strain, gives neither an
\* alert nor a notification.
C22_AlertOnlyAtThreshold ==
    [][/\ stress'.pc \in {"recovery", "advice", "send"} => AtOrOverThreshold(stress')
       /\ (\/ stress'.sent > stress.sent
           \/ Len(notifications') > Len(notifications)
           \/ last'.op = "_check_stress_job" /\ last'.sends # <<>> /\ last' # last)
          => stress.pc = "send" /\ AtOrOverThreshold(stress)]_vars

\* an alert is about to be sent for a strain equal to a threshold the user
\* has set
C22_Witness ==
    /\ stress.pc = "send"
    /\ stress.strain = stress.threshold
    /\ stress.threshold # Num(stress_threshold)
    /\ last.op = "_check_stress_job"

\* C24: after any sequence of /whoop_threshold commands the stored stress
\* threshold is a number within [0, 21].
C24_StoredThresholdInRange ==
    /\ user_settings.stress_threshold.is = "number"
    /\ user_settings.stress_threshold.v \in 0..threshold_max

-----------------------------------------------------------------------------
(* Properties of the active-hours gate (SpecHours).                        *)

\* the second of the day and the microsecond within it
SecondOfDay(t) == (t[1] * 60 + t[2]) * 60 + t[3]

Earlier(a, b) ==
    \/ SecondOfDay(a) < SecondOfDay(b)
    \/ SecondOfDay(a) = SecondOfDay(b) /\ a[4] <= b[4]

\* the configured texts that are times of day, and the times they name
ConfiguredClock ==
    (start_time :> <<8, 0, 0, 0>>) @@ (end_time :> <<0, 0, 0, 0>>)
        @@ (<<"8", ":", "0", "0">> :> <<8, 0, 0, 0>>)
        @@ (<<"1", "2", ":", "3", "0">> :> <<12, 30, 0, 0>>)
        @@ (<<"2", "3", ":", "5", "9">> :> <<23, 59, 0, 0>>)

\* C23: the stress check passes the active-hours gate exactly when start <=
\* current local time <= end, an end of 00:00 standing for 23:59:59; with the
\* default window 08:00 to 00:00 it passes from 08:00:00 through 23:59:59
\* and at no time before 08:00.
C23_ActiveHoursGate ==
    (pure.fn = "active_hours" /\ pure.done /\ pure.arg.start \in DOMAIN ConfiguredClock
        /\ pure.arg.end \in DOMAIN ConfiguredClock) =>
        LET start == ConfiguredClock[pure.arg.start]
            end == IF ConfiguredClock[pure.arg.end] = <<0, 0, 0, 0>> THEN <<23, 59, 59, 0>>
                   ELSE ConfiguredClock[pure.arg.end]
        IN  /\ pure.out <=> (Earlier(start, pure.arg.current_time) /\ Earlier(pure.arg.current_time, end))
            /\ (pure.arg.start = start_time /\ pure.arg.end = end_time)
                  => (pure.out <=> /\ SecondOfDay(pure.arg.current_time) >= 8 * 3600
                                   /\ Earlier(pure.arg.current_time, <<23, 59, 59, 0>>))

\* the default window lets the check pass at 23:59:59
C23_Witness ==
    /\ pure.fn = "active_hours" /\ pure.done
    /\ pure.arg.start = start_time /\ pure.arg.end = end_time
    /\ pure.arg.current_time = <<23, 59, 59, 0>>
    /\ pure.out

-----------------------------------------------------------------------------
(* Properties of /whoop_alerts (SpecAlerts).                               *)

\* C25: /whoop_alerts shows the 10 most recent notifications of the user
\* and, when the user has N > 10 of them, reports N - 10 further alerts.
C25_AlertsShownAndCounted ==
    (last.op = "_handle_whoop_alerts" /\ last.replies[1].text = "alerts") =>
        LET N == Cardinality({i \in DOMAIN notifications : notifications[i].user_id = last.user})
            shown == last.arg[1]
        IN  /\ Len(shown) = IF N < 10 THEN N ELSE 10
            /\ \A i \in DOMAIN shown : shown[i] = notifications[N + 1 - i].sent_at
            /\ N > 10 => last.arg[2] = N - 10

-----------------------------------------------------------------------------
(* Properties of /health (SpecHealth).                                     *)

\* C26: /health answers with one result for each of the three checks
\* whichever of them fail, and a check is reported as failed whenever its
\* dependency fails, a statistics read that meets a storage error included.
C26_HealthReportsEveryFailure ==
    last.op = "_handle_health" =>
        LET did == last.arg[1]
            lines == last.arg[2]
        IN  /\ last.replies # <<>> /\ last.replies[1].text = "health"
            /\ Len(lines) = 3
            /\ ~did.telegram_ok => lines[1] # "ok"
            /\ did.llm # "ok" => lines[2] # "ok"
            /\ ~did.read_ok => lines[3] # "ok"

-----------------------------------------------------------------------------
(* Properties of the commands (SpecBot).                                   *)

HandlerOps ==
    {"start", "stats", "callback", "_handle_health", "_handle_whoop_connect",
     "_handle_whoop_code", "_handle_whoop_now", "_handle_whoop_monitoring",
     "_handle_whoop_threshold", "_handle_whoop_alerts"}

\* C27: every invocation of a command handler or of the button-callback
\* handler ends with at least one reply (message or callback toast) attempted
\* to the user, on every path, every caught failure included.
C27_EveryInteractionAnswered ==
    last.op \in HandlerOps => last.replies # <<>>

\* /whoop_code has met a failed exchange and answered
C27_Witness ==
    /\ last.op = "_handle_whoop_code"
    /\ last.whoop > 0
    /\ whoop_tokens = NoTokens
    /\ last.replies # <<>>

-----------------------------------------------------------------------------
(* Properties of the unconfigured wearable (SpecWearable).                 *)

WearableCommands ==
    {"_handle_whoop_connect", "_handle_whoop_code", "_handle_whoop_now",
     "_handle_whoop_monitoring", "_handle_whoop_threshold", "_handle_whoop_alerts"}

-----------------------------------------------------------------------------
\* The process: job instances on the event loop, handlers, and the shutdown

\* the ids setup_scheduler registers jobs under: slot_<slotId>, here the pair
\* of "slot" and the slot id, and the three
\* other jobs; the WHOOP jobs only when WHOOP is configured
RuntimeSlots == {S1, S6}

slot_job_id(slot_id) == <<"slot", slot_id>>

JobIds == {slot_job_id(slot_id) : slot_id \in RuntimeSlots}
              \cup {<<"whoop_update">>, <<"whoop_stress_monitoring">>, <<"weekly_report">>}

registered_jobs(configured) ==
    {slot_job_id(slot_id) : slot_id \in RuntimeSlots}
        \cup (IF configured THEN {<<"whoop_update">>, <<"whoop_stress_monitoring">>} ELSE {})
        \cup {<<"weekly_report">>}

\* the HTTP clients a job awaits on, in the order of its await points
job_awaits(id) ==
    CASE id = <<"whoop_update">> -> <<"whoop">>
      [] id = <<"whoop_stress_monitoring">> -> <<"whoop", "llm", "telegram">>
      [] id = <<"weekly_report">> -> <<"telegram">>
      [] OTHER -> <<"llm", "telegram">>

\* add_job(..., max_instances=1)
max_instances == 1

\* the instances of one job id now executing
instances_of(id, instances) == {i \in instances : i.id = id}

\* the executor's check when a trigger fires: a run is submitted unless the
\* job already has max_instances instances executing
may_start_always(id, instances) == TRUE

may_start(id, instances) == Cardinality(instances_of(id, instances)) < max_instances

\* instances of one id the model follows at most
MaxInstances == 2

\* handlers in flight the model follows at most
MaxHandlers == 2

\* the order main() sets the scheduler and the bot up in: the jobs are added,
\* the bot is constructed, scheduler.bot = bot, scheduler.start()
startup_order_starting_unwired ==
    <<"setup_scheduler", "scheduler.start", "WhoopTelegramBotAI", "scheduler.bot">>

startup_order == <<"setup_scheduler", "WhoopTelegramBotAI", "scheduler.bot", "scheduler.start">>

\* main() is still setting up
starting_up(main) == \E k \in 1..Len(startup_order) : startup_order[k] = main

\* a job's trigger fires: the run starts at its first await point, or is
\* skipped because an instance of the job is still executing
JobFires(id) ==
    /\ runtime.scheduler = "running"
    /\ id \in registered_jobs(whoop_client)
    /\ Cardinality(instances_of(id, runtime.instances)) < MaxInstances
    /\ IF may_start(id, runtime.instances)
          THEN \E n \in 1..MaxInstances :
                  /\ \A i \in instances_of(id, runtime.instances) : i.n # n
                  /\ \A m \in 1..(n - 1) : \E i \in instances_of(id, runtime.instances) : i.n = m
                  /\ runtime' = [runtime EXCEPT
                        !.instances = @ \cup {[id |-> id, n |-> n, at |-> 1, status |-> "running"]},
                        !.skipped = None]
          ELSE runtime' = [runtime EXCEPT !.skipped = id]
    /\ UNCHANGED <<rows, today, clock, user_id, whoop_client, whoop_data, notifications, last, pure,
                   whoop_tokens, whoop_api, now, user_settings, stress, refreshes>>

\* the event loop resumes a job instance at its await point: a cancelled one
\* ends there, one whose HTTP client was closed fails there, another goes on
\* to its next await point or returns
JobResumes(i) ==
    /\ i \in runtime.instances
    /\ runtime.main # "exited"
    /\ runtime' = [runtime EXCEPT !.instances =
          IF i.status # "running"
             THEN @ \ {i}
             ELSE IF job_awaits(i.id)[i.at] \in runtime.closed
                     THEN (@ \ {i}) \cup {[i EXCEPT !.status = "client_closed"]}
                     ELSE IF i.at = Len(job_awaits(i.id))
                             THEN @ \ {i}
                             ELSE (@ \ {i}) \cup {[i EXCEPT !.at = @ + 1]}]
    /\ UNCHANGED <<rows, today, clock, user_id, whoop_client, whoop_data, notifications, last, pure,
                   whoop_tokens, whoop_api, now, user_settings, stress, refreshes>>

\* polling hands an update to a handler, which runs as a task of its own
HandlerStarts ==
    /\ runtime.main # "exited"
    /\ ~starting_up(runtime.main)
    /\ "telegram" \notin runtime.closed
    /\ runtime.handlers < MaxHandlers
    /\ runtime' = [runtime EXCEPT !.handlers = @ + 1]
    /\ UNCHANGED <<rows, today, clock, user_id, whoop_client, whoop_data, notifications, last, pure,
                   whoop_tokens, whoop_api, now, user_settings, stress, refreshes>>

HandlerReturns ==
    /\ runtime.main # "exited"
    /\ runtime.handlers > 0
    /\ runtime' = [runtime EXCEPT !.handlers = @ - 1]
    /\ UNCHANGED <<rows, today, clock, user_id, whoop_client, whoop_data, notifications, last, pure,
                   whoop_tokens, whoop_api, now, user_settings, stress, refreshes>>

\* SIGINT or SIGTERM: shutdown_event is set and main() goes on to its shutdown
ShutdownSignal ==
    /\ runtime.main = "waiting"
    /\ runtime' = [runtime EXCEPT !.main = "scheduler.stop"]
    /\ UNCHANGED <<rows, today, clock, user_id, whoop_client, whoop_data, notifications, last, pure,
                   whoop_tokens, whoop_api, now, user_settings, stress, refreshes>>

\* scheduler.stop(): the synchronous scheduler.shutdown(wait=True). It
\* returns without awaiting anything; what becomes of the job instances at
\* their await points is the executor's: it cancels them, or leaves them on
\* the event loop
SchedulerStop(cancels) ==
    /\ runtime.main = "scheduler.stop"
    /\ runtime' = [runtime EXCEPT
          !.main = "bot.stop",
          !.scheduler = "stopped",
          !.steps = Append(@, "scheduler"),
          !.instances = IF cancels THEN {[i EXCEPT !.status = "cancelled"] : i \in @} ELSE @]
    /\ UNCHANGED <<rows, today, clock, user_id, whoop_client, whoop_data, notifications, last, pure,
                   whoop_tokens, whoop_api, now, user_settings, stress, refreshes>>

\* await bot.stop(): the bot's HTTP session is closed
BotStop ==
    /\ runtime.main = "bot.stop"
    /\ runtime' = [runtime EXCEPT
          !.main = "llm_client.close",
          !.steps = Append(@, "bot"),
          !.closed = @ \cup {"telegram"}]
    /\ UNCHANGED <<rows, today, clock, user_id, whoop_client, whoop_data, notifications, last, pure,
                   whoop_tokens, whoop_api, now, user_settings, stress, refreshes>>

\* await llm_client.close()
LLMClose ==
    /\ runtime.main = "llm_client.close"
    /\ runtime' = [runtime EXCEPT
          !.main = "whoop_client.close",
          !.steps = Append(@, "llm"),
          !.closed = @ \cup {"llm"}]
    /\ UNCHANGED <<rows, today, clock, user_id, whoop_client, whoop_data, notifications, last, pure,
                   whoop_tokens, whoop_api, now, user_settings, stress, refreshes>>

\* if whoop_client: await whoop_client.close()
WhoopClose ==
    /\ runtime.main = "whoop_client.close"
    /\ runtime' = [runtime EXCEPT
          !.main = "return",
          !.steps = IF whoop_client THEN Append(@, "whoop") ELSE @,
          !.closed = IF whoop_client THEN @ \cup {"whoop"} ELSE @]
    /\ UNCHANGED <<rows, today, clock, user_id, whoop_client, whoop_data, notifications, last, pure,
                   whoop_tokens, whoop_api, now, user_settings, stress, refreshes>>

\* main() returns and asyncio.run cancels the tasks that are left
MainReturns ==
    /\ runtime.main = "return"
    /\ runtime' = [runtime EXCEPT
          !.main = "exited",
          !.handlers = 0,
          !.instances = {[i EXCEPT !.status = "cancelled"] : i \in @}]
    /\ UNCHANGED <<rows, today, clock, user_id, whoop_client, whoop_data, notifications, last, pure,
                   whoop_tokens, whoop_api, now, user_settings, stress, refreshes>>

InitRuntime ==
    /\ rows = <<>>
    /\ today = 1
    /\ clock = 0
    /\ user_id \in {"None", "u1"}
    /\ whoop_client \in BOOLEAN
    /\ whoop_data = [d \in Days |-> "none"]
    /\ notifications = <<>>
    /\ last = Idle
    /\ pure = None
    /\ WhoopIdle

NextRuntime ==
    \/ \E id \in JobIds : JobFires(id)
    \/ \E i \in runtime.instances : JobResumes(i)
    \/ HandlerStarts
    \/ HandlerReturns
    \/ ShutdownSignal
    \/ \E cancels \in BOOLEAN : SchedulerStop(cancels)
    \/ BotStop
    \/ LLMClose
    \/ WhoopClose
    \/ MainReturns

SpecRuntime == InitRuntime /\ [][NextRuntime]_vars

\* C29: for every job id, at most one instance of that job is executing at
\* any time; instances of different jobs and handlers are in flight together.
C29_OneInstancePerJob ==
    \A id \in JobIds : Cardinality(instances_of(id, runtime.instances)) <= 1

\* two different jobs and a handler are in flight at their await points, and
\* a trigger of a job that is still executing has just been skipped
C29_Witness ==
    /\ \E i, j \in runtime.instances :
          i.id # j.id /\ i.status = "running" /\ j.status = "running"
    /\ runtime.handlers > 0
    /\ \E i \in runtime.instances : runtime.skipped = i.id

\* the order main() shuts its parts down in
shutdown_order == <<"scheduler", "bot", "llm", "whoop">>

\* C30: on a shutdown signal the scheduler is stopped first, then the bot,
\* then the LLM client, then the wearable client when there is one; no job
\* starts once the scheduler is stopped; a job instance that is executing when
\* the scheduler stops is drained: it is not cancelled and does not lose an
\* HTTP client before it finishes.
C30_GracefulShutdown ==
    [][/\ \E k \in 0..Len(shutdown_order) :
              runtime'.steps = SelectSeq(SubSeq(shutdown_order, 1, k),
                                         LAMBDA step : step # "whoop" \/ whoop_client)
       /\ runtime.scheduler = "stopped" =>
              {<<i.id, i.n>> : i \in runtime'.instances} \subseteq
                  {<<i.id, i.n>> : i \in runtime.instances}
       /\ \A i \in runtime'.instances : i.status = "running"
      ]_vars

-----------------------------------------------------------------------------
\* _make_request applied once, the endpoint answering each attempt its own way

\* what the endpoint answers to the first, second and third data request
AttemptStatuses == [1..make_request_max_retries -> EndpointStatuses]

MakeRequestAnswered(statuses) ==
    /\ LET call == make_request_from(0, whoop_tokens, <<>>, whoop_api, now, statuses)
       IN  /\ whoop_tokens' = call.tokens
           /\ pure' = Called("_make_request", statuses, call)
    /\ UNCHANGED <<rows, today, clock, user_id, whoop_client, whoop_data, notifications, last,
                   whoop_api, now, user_settings, stress, runtime, refreshes>>

\* the servers of a request: the token URL refusing or granting, the data
\* endpoints accepting the stored token, the granted one, or none
RequestApis ==
    {api \in ApiStates :
        /\ api.grant.status \in {400, 200}
        /\ api.grant.status = 200 =>
              api.grant.access_token = "at2" /\ api.grant.refresh_token = "rt2"
        /\ api.accepts \in {{}, {"at1"}, {"at2"}, {"at1", "at2"}}}

InitRequest ==
    /\ rows = <<>>
    /\ today = 0
    /\ clock = 0
    /\ user_id = "u1"
    /\ whoop_client = TRUE
    /\ whoop_data = [d \in Days |-> "none"]
    /\ notifications = <<>>
    /\ last = Idle
    /\ pure = PureIdle
    /\ whoop_tokens \in JobTokens
    /\ whoop_api \in RequestApis
    /\ now \in 0..MaxNow
    /\ user_settings = [monitoring_enabled |-> TRUE, stress_threshold |-> Num(stress_threshold)]
    /\ stress = StressIdle
    /\ runtime = RuntimeIdle
    /\ refreshes = RefreshIdle

NextRequest == \E statuses \in AttemptStatuses : MakeRequestAnswered(statuses)

SpecRequest == InitRequest /\ [][NextRequest]_vars

\* the positions of the data requests in the trace of a call
DataRequestsOf(net) == {i \in DOMAIN net : net[i].to = "api_url"}

\* the number of the attempt that sent the data request at position i
AttemptAt(net, i) == Cardinality({j \in DataRequestsOf(net) : j <= i})

\* what the servers answered to the data request at position i
AnswerAt(net, i, statuses, api) ==
    IF net[i].with \in api.accepts THEN statuses[AttemptAt(net, i)] ELSE 401

\* C31: every execution of _make_request ends, returning a response or
\* raising, after at most 3 data requests; a 429 on a non-final attempt is
\* followed by a wait and a retry, a 429 on the final attempt raises the
\* rate-limit error, and an error status other than 401 and 429 raises at
\* once, without a retry.
C31_RequestRetriesAndEnds ==
    [][pure'.fn = "_make_request" =>
        LET out == pure'.out
            net == out.net
            sent == DataRequestsOf(net)
        IN  /\ Cardinality(sent) <= 3
            /\ (out.raised = "None") # (out.value = "None")
            /\ \A i \in sent :
                  LET answer == AnswerAt(net, i, pure'.arg, whoop_api)
                      final == AttemptAt(net, i) = 3
                  IN  /\ (answer = 429 /\ ~final) =>
                            /\ i < Len(net) /\ net[i + 1] = Sleep
                            /\ \E j \in sent : j > i
                      /\ (answer = 429 /\ final) =>
                            i = Len(net) /\ out.raised = "rate_limit"
                      /\ answer \notin {200, 401, 429} =>
                            i = Len(net) /\ out.raised = "api_error"
                      /\ answer = 200 => i = Len(net) /\ out.raised = "None"
      ]_<<pure, whoop_tokens>>

\* a request whose first attempt was answered 429 and whose retry 500
C31_Witness ==
    /\ pure.fn = "_make_request"
    /\ Cardinality(DataRequestsOf(pure.out.net)) = 2
    /\ \E i \in DOMAIN pure.out.net : pure.out.net[i] = Sleep
    /\ pure.out.raised = "api_error"

-----------------------------------------------------------------------------
\* The retry loop of _send_slot_job on its own: send_slot_message stands for
\* any callable, each call of which returns or raises

\* whether the first, second and third call raise
CallOutcomes == [1..max_retries -> BOOLEAN]

\* _send_slot_job(slot_id) with the calls of send_slot_message raising as
\* `raises` says
SendSlotJobLoop(slot_id, raises) ==
    /\ last' = IF user_id = "None"
               THEN [Idle EXCEPT !.op = "_send_slot_job", !.arg = <<slot_id, raises>>]
               ELSE SlotJobAttempts(1, [attempt \in 1..max_retries |->
                                           Effect(<<>>, 0, 0, raises[attempt])],
                                    [Idle EXCEPT !.op = "_send_slot_job",
                                                 !.arg = <<slot_id, raises>>])
    /\ UNCHANGED <<rows, today, clock, user_id, whoop_client, whoop_data, notifications, pure, whoop_vars>>

InitLoop ==
    /\ rows = <<>>
    /\ today = 0
    /\ clock = 0
    /\ user_id = "None"
    /\ whoop_client \in BOOLEAN
    /\ whoop_data = [d \in Days |-> "none"]
    /\ notifications = <<>>
    /\ last = Idle
    /\ pure = PureIdle
    /\ WhoopIdle

NextLoop ==
    \/ \E user \in Users, answer_ok \in BOOLEAN : HandleStart(user, FALSE, answer_ok)
    \/ \E slot_id \in SlotIds, raises \in CallOutcomes : SendSlotJobLoop(slot_id, raises)

SpecLoop == InitLoop /\ [][NextLoop]_vars

\* the calls of a run that raised, given the number of calls made
FailedCalls(raises, attempts) == {attempt \in 1..attempts : raises[attempt]}

\* C32: a slot-job run calls send_slot_message at most 3 times and stops at
\* the first call that returns without raising; it waits 2 s and then 4 s
\* between failed attempts, and returns without raising after the third
\* failure.
C32_SlotJobRetries ==
    (last.op = "_send_slot_job" /\ last.attempts > 0) =>
        LET raises == last.arg[2]
        IN  /\ last.attempts <= 3
            /\ \A attempt \in 1..(last.attempts - 1) : raises[attempt]
            /\ last.attempts < 3 => ~raises[last.attempts]
            /\ last.waits = SubSeq(<<2, 4>>, 1, last.attempts - 1)
            /\ ~last.raised

\* a run whose three calls all raised
C32_Witness ==
    /\ last.op = "_send_slot_job"
    /\ last.attempts = 3
    /\ last.arg[2] = [attempt \in 1..3 |-> TRUE]
    /\ last.waits = <<2, 4>>

-----------------------------------------------------------------------------
\* Properties of the slot job with the bot's send_slot_message (SpecSched)

\* the messages of a run that reached the user
Received(sends) == SelectSeq(sends, LAMBDA message : message.ok)

\* C35: a run of a slot job with a bound user calls send_slot_message exactly
\* once; the user receives at most one message with buttons (the LLM text or
\* the fallback, never both) and at most one metrics block.
C35_OneMessagePerRun ==
    (last.op = "_send_slot_job" /\ user_id # "None") =>
        /\ last.attempts = 1
        /\ Len(SelectSeq(Received(last.sends), LAMBDA message : message.buttons # None)) <= 1
        /\ Len(SelectSeq(Received(last.sends), LAMBDA message : message.text = "whoop_block")) <= 1

\* an S6 run that delivered the metrics block, failed to send the LLM text
\* and delivered the fallback message
C35_Witness ==
    /\ last.op = "_send_slot_job"
    /\ user_id # "None"
    /\ Len(last.sends) = 3
    /\ last.sends[1].text = "whoop_block" /\ last.sends[1].ok
    /\ last.sends[2].text = "generated" /\ ~last.sends[2].ok
    /\ last.sends[3].text = "fallback_message" /\ last.sends[3].ok

-----------------------------------------------------------------------------
\* _call_openrouter applied once to what its POSTs come to

InitCompletion ==
    /\ rows = <<>>
    /\ today = 0
    /\ clock = 0
    /\ user_id = "None"
    /\ whoop_client = FALSE
    /\ whoop_data = [d \in Days |-> "none"]
    /\ notifications = <<>>
    /\ WhoopIdle
    /\ last = Idle
    /\ \E responses \in [1..openrouter_max_retries -> Responses] :
          pure = [PureIdle EXCEPT !.fn = "_call_openrouter", !.arg = responses]

ApplyCallOpenrouter ==
    /\ pure.fn = "_call_openrouter" /\ ~pure.done
    /\ pure' = [pure EXCEPT !.done = TRUE, !.out = call_openrouter_from(pure.arg, 0, <<>>)]
    /\ UNCHANGED <<rows, today, clock, user_id, whoop_client, whoop_data, notifications, last, whoop_vars>>

SpecCompletion == InitCompletion /\ [][ApplyCallOpenrouter]_vars

\* the failures after which the completion call tries again
Retried == {"timeout", "http_5xx", "error"}

\* C33: a completion call makes at most 3 HTTP requests and ends with a text
\* or the empty result; it retries after a timeout, a status >= 500 and any
\* other exception, waiting 2^attempt seconds, and makes no further request
\* after a status below 500 or a successful response without choices.
C33_CompletionRetriesAndEnds ==
    (pure.fn = "_call_openrouter" /\ pure.done) =>
        LET responses == pure.arg
            posts == pure.out.posts
        IN  /\ posts \in 1..3
            /\ \A k \in 1..(posts - 1) : responses[k].kind \in Retried
            /\ posts < 3 => responses[posts].kind \notin Retried
            /\ pure.out.waits = SubSeq(<<1, 2>>, 1, posts - 1)
            /\ pure.out.message = IF responses[posts].kind = "content"
                                  THEN Strip(responses[posts].content) ELSE <<>>

\* a call that timed out, sleeps 1 s, then gets a 4xx and gives up
C33_Witness ==
    /\ pure.fn = "_call_openrouter" /\ pure.done
    /\ pure.arg[1].kind = "timeout"
    /\ pure.arg[2].kind = "http_4xx"
    /\ pure.arg[3].kind = "content"
    /\ pure.out = Completed(<<>>, 2, <<1>>)

-----------------------------------------------------------------------------
\* stats.py get_context_for_slot and llm_client.py _build_user_prompt: the
\* user prompt of a slot.  A text is a sequence of words, a placeholder being
\* one word; a Python value is its type with its str().

PyBool(b) == [type |-> "bool", v |-> IF b THEN "True" ELSE "False"]

PyNone == [type |-> "NoneType", v |-> "None"]

PyStr(text) == [type |-> "str", v |-> text]

PyInt(n) == [type |-> "int", v |-> ToString(n)]

\* a float, v its digits before the point
PyFloat(n) == [type |-> "float", v |-> ToString(n)]

\* the key is not in the dictionary
Missing == [type |-> "missing", v |-> ""]

\* dict.get(key, default)
dict_get(value, default) == IF value = Missing THEN default ELSE value

\* bool(value)
truthy(value) ==
    CASE value.type = "bool" -> value.v = "True"
      [] value.type = "NoneType" -> FALSE
      [] value.type = "str" -> value.v # ""
      [] OTHER -> value.v # "0"

\* str.replace(old, new)
str_replace(text, old, new) == [i \in DOMAIN text |-> IF text[i] = old THEN new ELSE text[i]]

\* the words put in for {{yesterday_status}}: done, skipped, unknown
word_done == "vypolnen"
word_skipped == "propuschen"
word_unknown == "neizvestno"
word_unavailable == "nedostupno"

\* the success test of get_context_for_slot on a button choice: "success" or
\* one of the markers in it
context_status(button_choice) ==
    Contains(Lower(button_choice), tok_success) \/ AnyMarkerIn(button_choice)

\* the WHOOP placeholder of a slot's template and its context key
whoop_placeholder(slot_id) ==
    CASE slot_id = S1 -> "{{whoop_recovery_yesterday}}"
      [] slot_id = S2 -> "{{whoop_sleep_yesterday}}"
      [] slot_id = S6 -> "{{whoop_recovery}}"
      [] OTHER -> "{{whoop_strain_today}}"

\* get_context_for_slot(slot_id, user_id), the keys _build_user_prompt reads:
\*   response  the slot's button choice of yesterday (for S6: the choice of
\*             today of each of S1..S5), None when there is none
\*   successful  get_slot_statistics(slot_id, 7)["successful"]
\*   whoop     the slot's WHOOP value: Missing without a client, else None or
\*             the number
get_context_for_slot(slot_id, response, successful, whoop) ==
    IF slot_id = S6
    THEN [yesterday_status |-> Missing,
          last_7_days_count |-> Missing,
          s_status |-> [i \in 1..5 |-> PyBool(response # None /\ context_status(response))],
          whoop |-> IF whoop = Missing THEN PyNone ELSE whoop]
    ELSE [yesterday_status |-> IF response # None THEN PyBool(context_status(response)) ELSE PyNone,
          last_7_days_count |-> PyInt(successful),
          s_status |-> [i \in 1..5 |-> Missing],
          whoop |-> whoop]

\* the {{s<i>_status}} placeholders of the S6 template
status_placeholder(i) == "{{s" \o ToString(i) \o "_status}}"

\* the for loop of the S6 branch, from i on
RECURSIVE replace_statuses(_, _, _)
replace_statuses(prompt, context, i) ==
    IF i > 5 THEN prompt
    ELSE LET slot_status == dict_get(context.s_status[i], PyStr(word_unknown))
             word == IF slot_status.type = "bool"
                     THEN (IF slot_status.v = "True" THEN "da" ELSE "net")
                     ELSE slot_status.v
         IN  replace_statuses(str_replace(prompt, status_placeholder(i), word), context, i + 1)

\* the replacement of the slot's WHOOP placeholder
replace_whoop(prompt, slot_id, context) ==
    LET value == dict_get(context.whoop, PyNone)
    IN  str_replace(prompt, whoop_placeholder(slot_id),
                    IF value.type # "NoneType" THEN value.v \o "%" ELSE word_unavailable)

\* _build_user_prompt(slot_config, context), the slot's template given
build_user_prompt(slot_id, template, context) ==
    LET yesterday_status == dict_get(context.yesterday_status, PyStr(word_unknown))
        with_status ==
            IF truthy(yesterday_status)
            THEN str_replace(template, "{{yesterday_status}}",
                             IF yesterday_status.type = "bool"
                             THEN (IF yesterday_status.v = "True" THEN word_done ELSE word_skipped)
                             ELSE yesterday_status.v)
            ELSE template
        with_count == str_replace(with_status, "{{last_7_days_count}}",
                                  dict_get(context.last_7_days_count, PyInt(0)).v)
        with_whoop == replace_whoop(with_count, slot_id, context)
    IN  IF slot_id = S6 THEN replace_statuses(with_whoop, context, 1) ELSE with_whoop

\* the user_prompt_template of a slot: plain text, or text with placeholders
Templates(slot_id) ==
    {<<"text">>,
     <<"{{yesterday_status}}", "{{last_7_days_count}}", whoop_placeholder(slot_id)>>,
     <<"{{yesterday_status}}", "text", "{{yesterday_status}}", status_placeholder(1)>>}

InitPrompt ==
    /\ rows = <<>>
    /\ today = 0
    /\ clock = 0
    /\ user_id = "None"
    /\ whoop_client = FALSE
    /\ whoop_data = [d \in Days |-> "none"]
    /\ notifications = <<>>
    /\ WhoopIdle
    /\ last = Idle
    /\ \E slot_id \in SlotIds, response \in {None, tok_success, tok_skip},
          successful \in 0..MaxTotal, whoop \in {Missing, PyNone, PyFloat(67)} :
       \E template \in Templates(slot_id) :
          pure = [PureIdle EXCEPT
                    !.fn = "_build_user_prompt",
                    !.arg = [slot_id |-> slot_id, template |-> template, response |-> response,
                             context |-> get_context_for_slot(slot_id, response, successful, whoop)]]

ApplyBuildUserPrompt ==
    /\ pure.fn = "_build_user_prompt" /\ ~pure.done
    /\ pure' = [pure EXCEPT
                  !.done = TRUE,
                  !.out = build_user_prompt(pure.arg.slot_id, pure.arg.template, pure.arg.context)]
    /\ UNCHANGED <<rows, today, clock, user_id, whoop_client, whoop_data, notifications, last, whoop_vars>>

SpecPrompt == InitPrompt /\ [][ApplyBuildUserPrompt]_vars

\* C34: for the slots S1..S5 the built user prompt holds no unreplaced
\* {{yesterday_status}}: the placeholder is replaced by the done word when the
\* context value is true, by the skipped word when it is false, and by the
\* unknown word when there was no response yesterday.
C34_YesterdayStatusReplaced ==
    (pure.fn = "_build_user_prompt" /\ pure.done /\ pure.arg.slot_id # S6) =>
        LET word == IF pure.arg.response = None THEN word_unknown
                    ELSE IF pure.arg.context.yesterday_status = PyBool(TRUE) THEN word_done
                    ELSE word_skipped
        IN  \A i \in DOMAIN pure.out :
                /\ pure.out[i] # "{{yesterday_status}}"
                /\ pure.arg.template[i] = "{{yesterday_status}}" => pure.out[i] = word

-----------------------------------------------------------------------------
\* Properties of the code exchange (SpecWhoop)

\* C36: a failed authorization-code exchange (an error status, a response
\* without access token, or no answer) leaves the user's token record as it
\* was; the record is written only after a successful exchange, and then
\* whole, from the response alone.
C36_FailedExchangeKeepsTokens ==
    [][pure'.fn = "exchange_code_for_tokens" =>
        LET grant == whoop_api.grant
            failed == grant.status # 200 \/ grant.access_token = "None"
        IN  /\ failed <=> pure'.out.raised # "None"
            /\ failed => whoop_tokens' = whoop_tokens
            /\ ~failed => whoop_tokens' =
                  [access_token |-> grant.access_token,
                   refresh_token |-> IF grant.refresh_token = "None"
                                     THEN grant.access_token ELSE grant.refresh_token,
                   expires_at |-> now + grant.expires_in]
      ]_<<pure, whoop_tokens>>

\* a connected user's exchange has just failed
C36_Witness ==
    /\ pure.fn = "exchange_code_for_tokens"
    /\ pure.out.raised = "exchange_failed"
    /\ whoop_tokens # NoTokens

-----------------------------------------------------------------------------
\* refresh_access_token step by step: tasks on the one event loop, each
\* suspended at its await of the POST to the token URL

\* token responses the model lets the token URL issue at most
MaxIssued == 2

\* the tokens of the n-th response the token URL issues
IssuedAccessTokens == <<"at2", "at3", "at4">>

IssuedRefreshTokens == <<"rt2", "rt3", "rt4">>

\* refresh_access_token up to its await: the row is read; without a row the
\* call raises, with a refresh token equal to the access token it returns the
\* stored token; otherwise the POST with the stored refresh token is sent
RefreshReads(task) ==
    /\ refreshes.tasks[task].pc = "idle"
    /\ refreshes' =
          IF whoop_tokens = NoTokens \/ whoop_tokens.refresh_token = whoop_tokens.access_token
          THEN refreshes
          ELSE [refreshes EXCEPT !.tasks[task] =
                   [pc |-> "posted", refresh_token |-> whoop_tokens.refresh_token,
                    response |-> NoResponse]]
    /\ UNCHANGED <<rows, today, clock, user_id, whoop_client, whoop_data, notifications, last, pure,
                   whoop_tokens, whoop_api, now, user_settings, stress, runtime>>

\* the token URL answers the POST of a task: it refuses (400), or, to the
\* refresh token it issued last, issues its next response, with a new refresh
\* token or without one
TokenUrlAnswers(task, granted, rotates) ==
    /\ refreshes.tasks[task].pc = "posted"
    /\ granted => /\ refreshes.issued < MaxIssued
                  /\ refreshes.tasks[task].refresh_token = refreshes.refresh_token
    /\ refreshes' =
          IF ~granted
          THEN [refreshes EXCEPT !.tasks[task].pc = "answered",
                                 !.tasks[task].response = [NoResponse EXCEPT !.status = 400]]
          ELSE LET n == refreshes.issued + 1
                   response == [status |-> 200, access_token |-> IssuedAccessTokens[n],
                                refresh_token |-> IF rotates THEN IssuedRefreshTokens[n]
                                                  ELSE "None",
                                expires_in |-> 3]
               IN  [refreshes EXCEPT !.tasks[task].pc = "answered",
                                     !.tasks[task].response = response,
                                     !.issued = n,
                                     !.access_token = response.access_token,
                                     !.refresh_token = IF rotates THEN response.refresh_token
                                                       ELSE @]
    /\ UNCHANGED <<rows, today, clock, user_id, whoop_client, whoop_data, notifications, last, pure,
                   whoop_tokens, whoop_api, now, user_settings, stress, runtime>>

\* refresh_access_token after its await: the row as the call leaves it.  An
\* error status raises; else update_whoop_tokens, and save_whoop_tokens when
\* the response carries a refresh token other than the one the call read
refresh_writes(tokens, task_state, t) ==
    LET response == task_state.response
        new_refresh_token == IF response.refresh_token = "None"
                             THEN task_state.refresh_token ELSE response.refresh_token
    IN  IF response.status # 200 THEN tokens
        ELSE IF new_refresh_token # task_state.refresh_token
        THEN save_whoop_tokens(response.access_token, new_refresh_token, response.expires_in, t)
        ELSE update_whoop_tokens(tokens, response.access_token, response.expires_in, t)

RefreshWrites(task) ==
    /\ refreshes.tasks[task].pc = "answered"
    /\ whoop_tokens' = refresh_writes(whoop_tokens, refreshes.tasks[task], now)
    /\ refreshes' = [refreshes EXCEPT !.tasks[task] = TaskIdle]
    /\ UNCHANGED <<rows, today, clock, user_id, whoop_client, whoop_data, notifications, last, pure,
                   whoop_api, now, user_settings, stress, runtime>>

InitRefresh ==
    /\ rows = <<>>
    /\ today = 0
    /\ clock = 0
    /\ user_id = "u1"
    /\ whoop_client = TRUE
    /\ whoop_data = [d \in Days |-> "none"]
    /\ notifications = <<>>
    /\ last = Idle
    /\ pure = PureIdle
    /\ whoop_tokens = save_whoop_tokens("at1", "rt1", 3, 0)
    /\ whoop_api = ApiDown
    /\ now = 0
    /\ user_settings = [monitoring_enabled |-> TRUE, stress_threshold |-> Num(stress_threshold)]
    /\ stress = StressIdle
    /\ runtime = RuntimeIdle
    /\ refreshes = [RefreshIdle EXCEPT !.access_token = "at1", !.refresh_token = "rt1"]

NextRefresh ==
    \/ \E task \in RefreshTasks : RefreshReads(task)
    \/ \E task \in RefreshTasks, granted, rotates \in BOOLEAN : TokenUrlAnswers(task, granted, rotates)
    \/ \E task \in RefreshTasks : RefreshWrites(task)

SpecRefresh == InitRefresh /\ [][NextRefresh]_vars

\* C37: when tasks refresh the same user's token with their awaits
\* interleaved, the token record stored after they finish holds the access
\* token and the refresh token the token URL issued most recently, never a
\* stale refresh token or a pair mixed from two responses.
C37_LatestTokensStored ==
    (\A task \in RefreshTasks : refreshes.tasks[task].pc = "idle") =>
        /\ whoop_tokens.access_token = refreshes.access_token
        /\ whoop_tokens.refresh_token = refreshes.refresh_token

-----------------------------------------------------------------------------
\* main() from the construction of the scheduler to the wait for a signal

\* the next step of main()'s set-up runs; a step that raises ends main() in
\* its except clause with sys.exit(1)
MainStarts(raises) ==
    /\ \E k \in 1..Len(startup_order) :
          /\ startup_order[k] = runtime.main
          /\ runtime' =
                IF raises
                   THEN [runtime EXCEPT
                            !.main = "exited",
                            !.handlers = 0,
                            !.instances = {[i EXCEPT !.status = "cancelled"] : i \in @}]
                   ELSE [runtime EXCEPT
                            !.main = IF k = Len(startup_order) THEN "waiting" ELSE startup_order[k + 1],
                            !.scheduler = CASE startup_order[k] = "setup_scheduler" -> "configured"
                                            [] startup_order[k] = "scheduler.start" -> "running"
                                            [] OTHER -> @,
                            !.bot = IF startup_order[k] = "scheduler.bot" THEN TRUE ELSE @]
    /\ UNCHANGED <<rows, today, clock, user_id, whoop_client, whoop_data, notifications, last, pure,
                   whoop_tokens, whoop_api, now, user_settings, stress, refreshes>>

\* SlotScheduler(bot=None, ...), its AsyncIOScheduler not started
InitStartup ==
    /\ rows = <<>>
    /\ today = 1
    /\ clock = 0
    /\ user_id \in {"None", "u1"}
    /\ whoop_client \in BOOLEAN
    /\ whoop_data = [d \in Days |-> "none"]
    /\ notifications = <<>>
    /\ last = Idle
    /\ pure = None
    /\ whoop_tokens = NoTokens
    /\ whoop_api = ApiDown
    /\ now = 0
    /\ user_settings = [monitoring_enabled |-> TRUE, stress_threshold |-> Num(stress_threshold)]
    /\ stress = StressIdle
    /\ runtime = [RuntimeIdle EXCEPT !.main = startup_order[1], !.scheduler = "created", !.bot = FALSE]
    /\ refreshes = RefreshIdle

NextStartup ==
    \/ \E raises \in BOOLEAN : MainStarts(raises)
    \/ NextRuntime

SpecStartup == InitStartup /\ [][NextStartup]_vars

\* C38: while the scheduler is running, and while any job instance is
\* executing, scheduler.bot is set: it is assigned before scheduler.start()
\* and never cleared afterwards.
C38_BotSetWhileJobsRun ==
    (runtime.scheduler = "running" \/ runtime.instances # {}) => runtime.bot

\* main() has gone through its set-up and a job instance is past its first
\* await point, where it uses self.bot
C38_Witness ==
    /\ runtime.main = "waiting"
    /\ runtime.bot
    /\ \E i \in runtime.instances : i.status = "running" /\ i.at > 1

-----------------------------------------------------------------------------
\* The nightly job over the rows of the whoop_data table

\* a row of whoop_data: the date (the primary key), the three metrics, each
\* named by the endpoint it was read from or "None" for NULL, and the
\* workouts count
WhoopRow(date, recovery_score, sleep_duration, strain_score, workouts_count) ==
    [date |-> date, recovery_score |-> recovery_score, sleep_duration |-> sleep_duration,
     strain_score |-> strain_score, workouts_count |-> workouts_count]

save_whoop_data_keeping_cached(table, target_date, recovery_score, sleep_duration, strain_score, workouts_count) ==
    {row \in table : row.date # target_date}
        \cup {WhoopRow(target_date,
                       IF recovery_score = "None" THEN row.recovery_score ELSE recovery_score,
                       IF sleep_duration = "None" THEN row.sleep_duration ELSE sleep_duration,
                       IF strain_score = "None" THEN row.strain_score ELSE strain_score,
                       IF workouts_count = 0 THEN row.workouts_count ELSE workouts_count) :
               row \in IF \E cached \in table : cached.date = target_date
                       THEN {cached \in table : cached.date = target_date}
                       ELSE {WhoopRow(target_date, "None", "None", "None", 0)}}

\* save_whoop_data: INSERT OR REPLACE by the date
save_whoop_data(table, target_date, recovery_score, sleep_duration, strain_score, workouts_count) ==
    {row \in table : row.date # target_date}
        \cup {WhoopRow(target_date, recovery_score, sleep_duration, strain_score, workouts_count)}

\* what get_today_whoop_data and the slot messages see of a date
cached_metrics(table, date) ==
    IF \A row \in table : row.date # date THEN "none"
    ELSE IF \E row \in table :
               /\ row.date = date
               /\ \/ row.recovery_score # "None"
                  \/ row.sleep_duration # "None"
                  \/ row.strain_score # "None"
         THEN "metrics" ELSE "empty"

\* the rows a date can have before the job runs: a full day's, an absent day's
CachedRows(date) ==
    {WhoopRow(date, "recovery", "sleep", "cycle", 1), WhoopRow(date, "None", "None", "None", 0)}

\* the tables: every date with one of its rows or without a row
WhoopTables ==
    {table \in SUBSET UNION {CachedRows(d) : d \in Days} :
        \A row, other \in table : row.date = other.date => row = other}

NightlyIdle(table) ==
    [fn |-> "idle", arg |-> [e \in EndpointNames |-> "empty"], table |-> table, saves |-> 0,
     committed |-> FALSE]

\* _update_whoop_data_job with the table's rows in `pure`
UpdateWhoopDataJobRows(endpoints, save_ok, notify_ok) ==
    /\ whoop_client
    /\ LET run == [Idle EXCEPT !.op = "_update_whoop_data_job"]
       IN  IF user_id = "None"
           THEN /\ save_ok /\ notify_ok
                /\ last' = run
                /\ pure' = [NightlyIdle(pure.table) EXCEPT !.fn = "_update_whoop_data_job", !.arg = endpoints]
                /\ UNCHANGED <<whoop_data, whoop_tokens>>
           ELSE \E check \in {get_access_token(whoop_tokens, whoop_api, now)} :
                \E data \in {get_all_data(check.tokens, whoop_api, now, endpoints)} :
                \E saved \in {save_whoop_data(pure.table, today, data.value.recovery_score,
                                              data.value.sleep_duration, data.value.strain_score,
                                              data.value.workouts_count)} :
                    /\ data.raised # "reconnect" => notify_ok
                    /\ whoop_tokens' = data.tokens
                    /\ pure' = [fn |-> "_update_whoop_data_job", arg |-> endpoints,
                                table |-> IF data.raised = "None" /\ save_ok THEN saved ELSE pure.table,
                                saves |-> IF data.raised = "None" THEN 1 ELSE 0,
                                committed |-> data.raised = "None" /\ save_ok]
                    /\ whoop_data' = [d \in Days |-> cached_metrics(pure'.table, d)]
                    /\ last' = [run EXCEPT
                          !.whoop = 2,
                          !.sends = IF data.raised = "reconnect"
                                    THEN <<Send(user_id, "reconnect", None, notify_ok)>> ELSE <<>>,
                          !.raised = data.raised # "None"]
    /\ UNCHANGED <<rows, today, clock, user_id, whoop_client, notifications,
                   whoop_api, now, user_settings, stress, runtime, refreshes>>

InitNightly ==
    /\ rows = <<>>
    /\ today \in Days
    /\ clock = 0
    /\ user_id \in {"None", "u1"}
    /\ whoop_client = TRUE
    /\ \E table \in WhoopTables :
          /\ pure = NightlyIdle(table)
          /\ whoop_data = [d \in Days |-> cached_metrics(table, d)]
    /\ notifications = <<>>
    /\ last = Idle
    /\ whoop_tokens \in JobTokens
    /\ whoop_api \in JobApis
    /\ now = MaxNow
    /\ user_settings = [monitoring_enabled |-> TRUE, stress_threshold |-> Num(stress_threshold)]
    /\ stress = StressIdle
    /\ runtime = RuntimeIdle
    /\ refreshes = RefreshIdle

\* the day's answers a nightly run meets: every endpoint with its value,
\* without records or failing, or one endpoint failing and the others with
\* their values
NightlyEndpoints ==
    JobEndpoints
        \cup {[e \in EndpointNames |-> IF e = failing THEN "error" ELSE "value"] :
               failing \in EndpointNames}

NextNightly ==
    \E endpoints \in NightlyEndpoints, save_ok, notify_ok \in BOOLEAN :
        UpdateWhoopDataJobRows(endpoints, save_ok, notify_ok)

SpecNightly == InitNightly /\ [][NextNightly]_vars

\* every data request of the run fails: the endpoints answer 500, or the run
\* has no token the endpoints accept
EveryEndpointFailed(endpoints, tokens, api, t) ==
    get_all_data(get_access_token(tokens, api, t).tokens, api, t, endpoints).failed = EndpointNames

\* C39: a nightly run with a bound user and a wearable client always issues
\* the write of today's row, and once the write is committed the table has
\* exactly one row for today, holding what the run aggregated; when every
\* endpoint failed that row has no recovery, sleep and strain and 0 workouts,
\* whatever was cached for today before; the rows of other dates are as they
\* were.
C39_NightlyRunWritesToday ==
    [][(pure'.fn = "_update_whoop_data_job" /\ user_id # "None" /\ whoop_client) =>
          /\ pure'.saves = 1
          /\ {row \in pure'.table : row.date # today} = {row \in pure.table : row.date # today}
          /\ pure'.committed =>
                /\ Cardinality({row \in pure'.table : row.date = today}) = 1
                /\ EveryEndpointFailed(pure'.arg, whoop_tokens, whoop_api, now) =>
                      WhoopRow(today, "None", "None", "None", 0) \in pure'.table
                /\ whoop_data'[today] # "none"
      ]_vars

\* a run in which every endpoint failed has replaced a full row of today,
\* next to a full row of another date
C39_Witness ==
    /\ pure.fn = "_update_whoop_data_job"
    /\ user_id # "None"
    /\ pure.committed
    /\ \A e \in EndpointNames : pure.arg[e] = "error"
    /\ pure.table = {WhoopRow(today, "None", "None", "None", 0),
                     WhoopRow(1 - today, "recovery", "sleep", "cycle", 1)}
    /\ whoop_data[today] = "empty"


=============================================================================
